---- MODULE Spec2Model ----
(***************************************************************************)
(* Model of the travel-assistant backend.                                  *)
(*                                                                         *)
(* Spec: one /chat request, from its arrival to the last side effect it    *)
(* causes: unified_chat (app/routes.py), generate_stream,                  *)
(* get_complete_response and get_complete_response_explore                 *)
(* (app/services.py), the memory adapter (app/memory.py) and the           *)
(* background trigger research_further (app/tools.py).                     *)
(* SpecSession: /chat requests one after another on one memory service.    *)
(* SpecResearch: one call of validate_research                             *)
(* (app/api/validator/services/validator_service.py), step by step.        *)
(* SpecValidator: one request to /validator/process, with its background   *)
(* task and the pipelines of its sub-queries (app/api/validator/routes.py).*)
(* SpecGather: the worker threads of the gathered pipelines inside         *)
(* validate_research, every interleaving of their steps.                   *)
(*                                                                         *)
(* Text is a sequence of tokens, so that concatenation is \o and the empty *)
(* text is << >>.                                                          *)
(***************************************************************************)
EXTENDS Integers, Sequences, FiniteSets, Bags, TLC

\* ------------------------------------------------------------------ bounds
\* Largest number of events the model's stream delivers to one generate_stream.
MaxEvents == 3
\* /chat requests of one session.
MaxRequests == 3
\* Largest number of sub-queries the classifier model gives back.
MaxQueries == 6

\* ------------------------------------------------------------------ values
None == "None"

\* request.param: "explore", and two of the other values a client can send.
Params == {"explore", "default", ""}
\* request.message: a query and the empty message.
Messages == {"hi", ""}
\* request.user_id: a user and the empty id.
UserIds == {"u1", ""}

Reasons == {"CLEAN", "TOXICITY"}
TravelTypes == {"general-travel-query", "specific-search-query", "none"}

\* output_type of validation_agent.
global_input_guardrail ==
    [isValid : BOOLEAN, reason : Reasons, isTravelRelated : BOOLEAN,
     solution : {"rephrase"}]

\* output_type of explore_travel_agent.
global_travel_guardrail ==
    [isValid : BOOLEAN, reason : Reasons, isTravelRelated : BOOLEAN,
     isPlanRelated : BOOLEAN, travel_type : TravelTypes]

\* Text deltas the model can send: the empty delta and two tokens.
Deltas == {<< >>, <<"a">>, <<"b">>}

\* What client.thread.get_user_context(...).context can be.
Contexts == {None, "", "ctx"}

VARIABLES
    request,        \* the QueryRequest
    hpc,            \* position of unified_chat
    thread_id,      \* what check_user returned
    verdict,        \* << >>, or <<final_output>> of the classifier agent
    responses,      \* what unified_chat returned or raised, in order
    calls,          \* calls to the agent runtime and the memory service, in order
    gen,            \* the generator the StreamingResponse iterates
    gpc,            \* position of that generator
    frames,         \* the frames emitted to the client, in order
    ridx,           \* error_stream_generator: frames emitted so far
    final_message,  \* generate_stream: the thread context
    first_chunk_time,
    full_response_content,
    chunk,          \* generate_stream: the delta between the ttfb and content yields
    nevents,        \* generate_stream: events received from the model
    deltas,         \* generate_stream: the non-empty deltas received, in order
    received,       \* generate_stream: every text delta received, empty ones too
    thread,         \* the memory service: messages appended, in order
    workers,        \* research_further: the worker threads started
    saves,          \* generate_stream: the save_message tasks created
    disconnected,   \* the client has gone away
    zep_threads,    \* the memory service: the threads created, in order
    nrequests,      \* /chat requests received so far
    env,            \* the process environment: which keys are set
    validator,      \* the module global _validator of validator_service
    instances,      \* ResearchValidator objects constructed so far
    research,       \* one call of validate_research, step by step
    vresponses,     \* what validate_query returned or raised, in order
    bpc,            \* position of process_in_background
    completion,     \* << >>, or <<what the classifier model answered>>
    classification, \* << >>, or <<what classify_query returned>>
    tasks,          \* the process_query_research coroutines, one per sub-query
    formatted_results,
    research_insights   \* the rows of the research_insights table

\* The state of one /chat request.
cvars == <<request, hpc, thread_id, verdict, responses, calls, gen, gpc, frames,
           ridx, final_message, first_chunk_time, full_response_content, chunk,
           nevents, deltas, received, thread, workers, saves, disconnected>>

\* What outlives a /chat request.
svars == <<zep_threads, nrequests>>

\* The state of the validator pipeline.
xvars == <<env, validator, instances, research, vresponses, bpc, completion,
           classification, tasks, formatted_results, research_insights>>

vars == <<cvars, svars, xvars>>

hvars == <<request, hpc, thread_id, verdict, responses>>
gvars == <<gen, gpc, frames, ridx, final_message, first_chunk_time,
           full_response_content, chunk, nevents, deltas, received, disconnected>>

\* ------------------------------------------------------------------ frames
Frame(kind, content, blocked) ==
    [kind |-> kind, content |-> content, blocked |-> blocked]

StartedFrame == Frame("started", << >>, FALSE)
TtfbFrame == Frame("time_to_first_byte", << >>, FALSE)
ContentFrameCleared(c) == Frame("content", << >>, FALSE)
ContentFrame(c) == Frame("content", c, FALSE)
DoneFrame == Frame("done", << >>, FALSE)
BlockedDoneFrame == Frame("done", << >>, TRUE)
ErrorFrame(e) == Frame("error", <<e>>, FALSE)

Kinds(fs) == [i \in 1..Len(fs) |-> fs[i].kind]

\* ------------------------------------------------------------------ memory
Message(role, content) == [role |-> role, content |-> content]

\* add_message: one Message appended to the thread.
add_message(store, message, tid, role) ==
    Append(store, [thread_id |-> tid, msg |-> Message(role, message)])

\* ------------------------------------------------------------------ trigger
\* _send_request's input check.
IsBlank(q) == q \in {None, "", " "}

research_further_sync(query) ==
    [query |-> query, state |-> IF IsBlank(query) THEN "skipped" ELSE "ok",
     attempts |-> IF IsBlank(query) THEN 0 ELSE 1]

\* research_further: a daemon thread is started on _send_request and the call
\* returns.
research_further(query) ==
    [query |-> query, state |-> "started", attempts |-> 0]

start_never(threads, t) == threads

\* thread.start(): the thread is running from here on.
start(threads, t) == Append(threads, t)

\* ------------------------------------------------------------------ routing
REJECT == "REJECT"
TRIP == "TRIP"
EXPLORE == "EXPLORE"
STREAM == "STREAM"

AttributeError == <<"AttributeError">>

\* getattr(obj, name, default)
GetAttrDefault(obj, name, default) ==
    IF name \in DOMAIN obj THEN obj[name] ELSE default

\* obj.name on a pydantic model: an undeclared field raises AttributeError.
HasAttr(obj, name) == name \in DOMAIN obj

RouteSubIntentFirst(param, output) ==
    IF param = "explore"
    THEN IF ~output.isValid THEN REJECT
         ELSE IF output.isTravelRelated
                 /\ GetAttrDefault(output, "travel_type", "") = "specific-search-query"
              THEN EXPLORE
         ELSE IF GetAttrDefault(output, "isPlanRelated", FALSE) THEN TRIP
         ELSE STREAM
    ELSE IF ~output.isValid THEN REJECT
         ELSE IF output.isTravelRelated THEN TRIP
         ELSE STREAM

RouteExploreUnlessDefault(param, output) ==
    IF param # "default"
    THEN IF ~output.isValid THEN REJECT
         ELSE IF GetAttrDefault(output, "isPlanRelated", FALSE) THEN TRIP
         ELSE IF output.isTravelRelated
                 /\ GetAttrDefault(output, "travel_type", "") = "specific-search-query"
              THEN EXPLORE
         ELSE STREAM
    ELSE IF ~output.isValid THEN REJECT
         ELSE IF output.isTravelRelated THEN TRIP
         ELSE STREAM

\* The branch of unified_chat a classifier output takes.
Route(param, output) ==
    IF param = "explore"
    THEN IF ~output.isValid THEN REJECT
         ELSE IF GetAttrDefault(output, "isPlanRelated", FALSE) THEN TRIP
         ELSE IF output.isTravelRelated
                 /\ GetAttrDefault(output, "travel_type", "") = "specific-search-query"
              THEN EXPLORE
         ELSE STREAM
    ELSE IF ~output.isValid THEN REJECT
         ELSE IF output.isTravelRelated THEN TRIP
         ELSE STREAM

ResponseForNoFallback(strategy) ==
    CASE strategy = REJECT -> "sse"
      [] strategy = TRIP -> "json"
      [] strategy = EXPLORE -> "json"
      [] OTHER -> "null"

\* The response class each branch of unified_chat returns.
ResponseFor(strategy) ==
    CASE strategy = REJECT -> "sse"
      [] strategy = TRIP -> "json"
      [] strategy = EXPLORE -> "json"
      [] strategy = STREAM -> "sse"

ClassifierForAlwaysValidation(param) == "validation_agent"

\* The classifier agent unified_chat runs.
ClassifierFor(param) ==
    IF param = "explore" THEN "explore_travel_agent" ELSE "validation_agent"

OutputType(agent) ==
    IF agent = "explore_travel_agent" THEN global_travel_guardrail
    ELSE global_input_guardrail

\* ------------------------------------------------------------------ responses
NoGen == [name |-> "none", reason |-> None, solution |-> None]
StreamGen == [name |-> "stream", reason |-> None, solution |-> None]
RejectGen(reason, solution) ==
    [name |-> "reject", reason |-> reason, solution |-> solution]

StreamingResponse(g) == [kind |-> "sse", status |-> 200, body |-> g]
JSONResponse(content) == [kind |-> "json", status |-> 200, body |-> content]
NullResponse == [kind |-> "null", status |-> 200, body |-> None]
HTTPException(status, detail) ==
    [kind |-> "http_error", status |-> status, body |-> detail]

\* get_error_stream_response(reason, solution)
get_error_stream_response(reason, solution) ==
    StreamingResponse(RejectGen(reason, solution))

unified_chat_except_as_reject(e) == get_error_stream_response(e, None)

\* unified_chat's handler of every exception raised in its body.
unified_chat_except(e) == HTTPException(500, e)

get_complete_response_except_partial(e) ==
    [raised |-> FALSE, value |-> <<None, "timing_info">>]

\* get_complete_response's handler: the error is wrapped and raised again.
get_complete_response_except(e) ==
    [raised |-> TRUE, value |-> <<"Agent error">> \o e]

get_complete_response_explore_except_swallow(e) ==
    [raised |-> FALSE, value |-> <<"ExploreResponse", "timing_info">>]

\* get_complete_response_explore's handler.
get_complete_response_explore_except(e) ==
    [raised |-> TRUE, value |-> <<"Agent error">> \o e]

\* The response a branch returns, of the class ResponseFor gives it.
BranchResponse(strategy, sse, json) ==
    CASE ResponseFor(strategy) = "sse" -> sse
      [] ResponseFor(strategy) = "json" -> json
      [] OTHER -> NullResponse

\* unified_chat returns resp (or raises it): a StreamingResponse is then
\* iterated by the server, which starts its generator.
Return(resp) ==
    /\ responses' = Append(responses, resp)
    /\ hpc' = "done"
    /\ IF resp.kind = "sse"
       THEN gen' = resp.body /\ gpc' = "start"
       ELSE UNCHANGED <<gen, gpc>>

\* The entries of calls: who was called, with what, and whether it raised.
Call(op, target, input, outcome) ==
    [op |-> op, target |-> target, input |-> input, outcome |-> outcome]
RunnerRun(agent, input, outcome) == Call("Runner.run", agent, input, outcome)
RunnerRunStreamed(agent, input) == Call("Runner.run_streamed", agent, input, "ok")
ThreadCreate(tid, uid) == Call("thread.create", tid, uid, "ok")
AddMessage(role, message, outcome) == Call("add_message", role, message, outcome)

\* ------------------------------------------------------------------ research values
\* JSON and Python values, by type: a string is the tuple of its tokens.
Str(v) == [t |-> "str", v |-> v]
Num(v) == [t |-> "num", v |-> <<v>>]
PyNone == [t |-> "null", v |-> << >>]
List(v) == [t |-> "list", v |-> v]

\* bool(x) is False
Falsy(x) ==
    \/ x.t = "null"
    \/ x.t \in {"str", "list"} /\ x.v = << >>
    \/ x.t = "num" /\ x.v = <<"0">>

IsSpace(c) == c \in {" ", "\t", "\n"}

RECURSIVE lstrip(_)
lstrip(s) ==
    IF s = << >> THEN s
    ELSE IF IsSpace(Head(s)) THEN lstrip(Tail(s)) ELSE s

RECURSIVE rstrip(_)
rstrip(s) ==
    IF s = << >> THEN s
    ELSE IF IsSpace(s[Len(s)]) THEN rstrip(SubSeq(s, 1, Len(s) - 1)) ELSE s

\* str.strip()
strip(s) == rstrip(lstrip(s))

Unknown == Str(<<"Unknown">>)

\* The values the synthesis can give its location field.
Locations ==
    {PyNone, Str(<< >>), Str(<<"null">>), Str(<<"None">>), Str(<<"N/A">>),
     Str(<<"n/a">>), Str(<<" ">>), Str(<<" ", "\t">>), Str(<<" ", "N/A", " ">>),
     Str(<<"Paris">>), Str(<<" ", "Paris", "\n">>), Str(<<"New", " ", "York">>),
     List(<< >>), List(<<"Paris">>), Num("0")}

\* The values the synthesis can give its similarity_score field: the model is
\* asked for the half-point scale and may answer any JSON number.
Scores == {"0", "2.5", "3", "2.7", "4"}

\* The JSON objects the synthesis call can return: every field may be absent.
Syntheses ==
    [location : Locations, similarity_score : Scores,
     combined_research : {<<"text">>}]
    \cup [similarity_score : Scores, combined_research : {<<"text">>}]
    \cup [location : Locations]
    \cup {<< >>}

\* What the POST to the chat completions endpoint can come to.
LlmResponses ==
    {[kind |-> "raise", synthesis |-> << >>],
     [kind |-> "status", synthesis |-> << >>]}
    \cup [kind : {"ok"}, synthesis : Syntheses]

\* What search_openai, search_perplexity and search_tavily return: content and
\* citations, empty content, or a failure.
SearchResult(source, success, content, citations) ==
    [source |-> source, success |-> success, content |-> content,
     citations |-> citations]
SearchResults(source, citations) ==
    {SearchResult(source, TRUE, <<"found">>, citations),
     SearchResult(source, TRUE, << >>, citations),
     SearchResult(source, FALSE, << >>, << >>)}
OpenAIResults == SearchResults("OpenAI", <<"u1">>)
PerplexityResults == SearchResults("Perplexity", <<"u1", "u2">>)
TavilyResults == SearchResults("Tavily", <<"u3">>)

\* The keys of the environment, set or not.
Envs ==
    [openai_key : BOOLEAN, search_keys : BOOLEAN, supabase_keys : BOOLEAN,
     maps_key : BOOLEAN]
AllKeys ==
    [openai_key |-> TRUE, search_keys |-> TRUE, supabase_keys |-> TRUE,
     maps_key |-> TRUE]

\* ------------------------------------------------------------------ ResearchValidator
\* Sources the synthesis needs.
MinSources == 2

successful_results_by_flag(research_results) ==
    SelectSeq(research_results, LAMBDA r : r.success)

\* [r for r in research_results if r["success"] and r.get("content")]
successful_results(research_results) ==
    SelectSeq(research_results, LAMBDA r : r.success /\ r.content # << >>)

\* calculate_similarity_and_synthesize posts to the model.
SynthesisCalled(research_results) ==
    Len(successful_results(research_results)) >= MinSources

\* calculate_similarity_and_synthesize, llm being what the POST comes to.
calculate_similarity_and_synthesize(research_results, llm) ==
    IF ~SynthesisCalled(research_results)
    THEN [success |-> FALSE, synthesis |-> << >>,
          error |-> <<"Need at least 2 successful sources with content to synthesize.">>]
    ELSE CASE llm.kind = "ok" ->
                [success |-> TRUE, synthesis |-> llm.synthesis, error |-> << >>]
           [] llm.kind = "status" ->
                [success |-> FALSE, synthesis |-> << >>, error |-> <<"Error ", "status">>]
           [] OTHER ->
                [success |-> FALSE, synthesis |-> << >>, error |-> <<"RequestException">>]

\* all_citations: the citations of the successful results, in order.
RECURSIVE all_citations(_)
all_citations(research_results) ==
    IF research_results = << >> THEN << >>
    ELSE (IF Head(research_results).success
          THEN Head(research_results).citations ELSE << >>)
         \o all_citations(Tail(research_results))

\* unique_citations: duplicates removed, order kept.
RECURSIVE unique(_, _)
unique(citations, seen) ==
    IF citations = << >> THEN << >>
    ELSE IF Head(citations) \in seen THEN unique(Tail(citations), seen)
    ELSE <<Head(citations)>> \o unique(Tail(citations), seen \cup {Head(citations)})

location_unstripped(synthesis) ==
    LET location == GetAttrDefault(synthesis, "location", Unknown) IN
    IF Falsy(location)
       \/ location \in {PyNone, Str(<<"null">>), Str(<<"None">>), Str(<< >>),
                        Str(<<"N/A">>), Str(<<"n/a">>)}
    THEN Unknown
    ELSE location

\* get_validated_research: the location of a successful synthesis.
location_of(synthesis) ==
    LET location == GetAttrDefault(synthesis, "location", Unknown)
        checked ==
            IF Falsy(location)
               \/ location \in {PyNone, Str(<<"null">>), Str(<<"None">>),
                                Str(<< >>), Str(<<"N/A">>), Str(<<"n/a">>)}
            THEN Unknown
            ELSE location
    IN  IF checked.t = "str"
        THEN IF strip(checked.v) = << >> THEN Unknown ELSE Str(strip(checked.v))
        ELSE checked

\* f"{synthesis.get('similarity_score', 0)}/3"
score_of(synthesis) ==
    <<GetAttrDefault(synthesis, "similarity_score", "0"), "/3">>

\* The result of get_validated_research.
Research(score, text, location, citations) ==
    [score |-> score, research |-> text, location |-> location,
     citations |-> citations]

\* get_validated_research, from the three search results on.
get_validated_research(research_results, llm) ==
    LET synthesis_result == calculate_similarity_and_synthesize(research_results, llm)
        unique_citations == unique(all_citations(research_results), {})
    IN  IF synthesis_result.success
        THEN Research(score_of(synthesis_result.synthesis),
                      GetAttrDefault(synthesis_result.synthesis,
                                     "combined_research", << >>),
                      location_of(synthesis_result.synthesis),
                      unique_citations)
        ELSE Research(<<"0", "/3">>, <<"Error: ">> \o synthesis_result.error,
                      Unknown, unique_citations)

\* ResearchValidator(): the keys are checked, then the Supabase client is
\* created, which raises when its url or key is missing.
ResearchValidatorInit(e) ==
    IF ~(e.openai_key /\ e.search_keys) THEN "ValueError"
    ELSE IF ~e.supabase_keys THEN "SupabaseException"
    ELSE "ok"

\* validate_research: what it returns when ResearchValidator() raises ValueError.
InitializationError ==
    Research(<<"0", "/3">>, <<"Initialization Error: ", "Missing API keys">>,
             Unknown, << >>)

\* No call of validate_research in progress.
NoResearch ==
    [pc |-> "idle", research_results |-> << >>, llm_calls |-> 0, llm |-> << >>,
     ret |-> << >>]

\* ------------------------------------------------------------------ classification
QueryTypes == {"generic", "specific", "ignore"}

\* The sub-queries the classifier writes, by position.
QueryPool == <<"q1", "q2", "q3", "q4", "q5", "q6", "q7", "q8">>

\* QueryClassification: what the classifier model can give back.
QueryClassification ==
    {[type |-> t, queries |-> SubSeq(QueryPool, 1, n)] :
        t \in QueryTypes, n \in 0..MaxQueries}

\* Sub-queries of a generic, a specific and an ignore classification.
GenericCount == 5
SpecificCount == 1
IgnoreCount == 0

_validate_response_lenient(result) == TRUE

\* OpenAIService._validate_response: TRUE when it returns, FALSE when it
\* raises ValueError.
_validate_response(result) ==
    /\ ~(result.type = "generic" /\ Len(result.queries) # GenericCount)
    /\ ~(result.type = "specific" /\ Len(result.queries) # SpecificCount)
    /\ ~(result.type = "ignore" /\ Len(result.queries) # IgnoreCount)

\* OpenAIService.classify_query, parsed being << >> when the call to the model
\* raised and <<the parsed QueryClassification>> otherwise.
classify_query(parsed) ==
    IF parsed = << >>
    THEN [raised |-> TRUE, value |-> <<"RuntimeError", "APIError">>]
    ELSE IF ~_validate_response(parsed[1])
    THEN [raised |-> TRUE, value |-> <<"RuntimeError", "ValueError">>]
    ELSE [raised |-> FALSE,
          value |-> <<[type |-> parsed[1].type, queries |-> parsed[1].queries]>>]

\* ------------------------------------------------------------------ process_query_research
\* What the RAG webhook answers: its four arrays.
RagResponse(entities, chunks, audience, travel_style) ==
    [entities |-> entities, chunks |-> chunks, audience |-> audience,
     travel_style |-> travel_style]
RagResponses ==
    {RagResponse(<< >>, << >>, << >>, << >>),
     RagResponse(<<"entity">>, << >>, << >>, << >>),
     RagResponse(<< >>, <<"chunk">>, << >>, << >>),
     RagResponse(<< >>, << >>, <<"family">>, << >>),
     RagResponse(<< >>, << >>, << >>, <<"luxury">>)}

has_rag_answer_by_content(rag_response) ==
    \/ Len(rag_response.entities) > 0
    \/ Len(rag_response.chunks) > 0

\* has_rag_answer
has_rag_answer(rag_response) ==
    \/ Len(rag_response.entities) > 0
    \/ Len(rag_response.chunks) > 0
    \/ Len(rag_response.audience) > 0
    \/ Len(rag_response.travel_style) > 0

\* The RAG check of process_query_research: rag is << >> when the call
\* raised; the context kept is << >> (None) or <<the response>>.
rag_context(rag) ==
    IF rag = << >> THEN << >>
    ELSE IF has_rag_answer(rag[1]) THEN rag
    ELSE << >>

\* The cases of get_validated_research the pipeline is followed through: a
\* synthesis of three sources, and two sources failing.
ResearchCases ==
    {get_validated_research(
        <<SearchResult("OpenAI", TRUE, <<"found">>, <<"u1">>),
          SearchResult("Perplexity", TRUE, <<"found">>, <<"u1", "u2">>),
          SearchResult("Tavily", TRUE, <<"found">>, <<"u3">>)>>,
        [kind |-> "ok",
         synthesis |-> [location |-> Str(<<"Paris">>), similarity_score |-> "2.5",
                        combined_research |-> <<"text">>]]),
     get_validated_research(
        <<SearchResult("OpenAI", TRUE, <<"found">>, <<"u1">>),
          SearchResult("Perplexity", FALSE, << >>, << >>),
          SearchResult("Tavily", FALSE, << >>, << >>)>>,
        [kind |-> "raise", synthesis |-> << >>])}

\* What get_google_maps_data returns: the first geocoding result, or None.
MapsData == {None, "geocode"}

\* What the geocoding request can come to: an exception of the client, an
\* HTTP error status, or a JSON answer with its status and results.
MapsReply(kind, status, results) ==
    [kind |-> kind, status |-> status, results |-> results]
MapsReplies ==
    {MapsReply("raise", None, << >>),
     MapsReply("http_error", None, << >>),
     MapsReply("json", "ZERO_RESULTS", << >>),
     MapsReply("json", "OK", << >>),
     MapsReply("json", "OK", <<"geocode">>)}

\* The lookup came to nothing.
MapsFailed(reply) ==
    reply.kind # "json" \/ reply.status # "OK" \/ reply.results = << >>

get_google_maps_data_raise(reply) ==
    [raised |-> MapsFailed(reply),
     value |-> IF MapsFailed(reply) THEN None ELSE reply.results[1]]

\* get_google_maps_data: every failure is caught and answered with None.
get_google_maps_data(reply) ==
    [raised |-> FALSE,
     value |-> IF reply.kind = "json" /\ reply.status = "OK"
                    /\ reply.results # << >>
               THEN reply.results[1] ELSE None]

\* conversion_input["results"][0]
ResearchRecord(query, result, maps_data) ==
    [kind |-> "research", query |-> query, score |-> result.score,
     research |-> result.research, citations |-> result.citations,
     location |-> result.location, maps_data |-> maps_data,
     db_id |-> << >>, db_error |-> << >>]

\* conversion_input
ConversionInput(type, query, rag_response, result, maps_data) ==
    [type |-> type, queries |-> <<query>>, rag_context |-> rag_response,
     results |-> <<ResearchRecord(query, result, maps_data)>>]

\* formatted_data_list[0].model_dump(): the attraction converted from the
\* research of a query.
Attraction(query) ==
    [kind |-> "attraction", query |-> query, score |-> << >>, research |-> << >>,
     citations |-> << >>, location |-> Unknown, maps_data |-> None,
     db_id |-> << >>, db_error |-> << >>]

insert_except_raise(formatted_data, e) ==
    [raised |-> TRUE, value |-> formatted_data]

\* The handler of a failed insert: the record is returned, marked.
insert_except(formatted_data, e) ==
    [raised |-> FALSE,
     value |-> [formatted_data EXCEPT !.db_id = << >>, !.db_error = <<e>>]]

conversion_except_raise(conversion_input, e) ==
    [raised |-> TRUE, value |-> conversion_input.results[1]]

\* The handler of a failed conversion: the research record is returned.
conversion_except(conversion_input, e) ==
    [raised |-> FALSE, value |-> conversion_input.results[1]]

\* A process_query_research coroutine: its locals, its position, and what it
\* returned or raised.
Task(query, pc) ==
    [query |-> query, pc |-> pc, rag_response |-> << >>, result |-> << >>,
     maps_data |-> None, conversion_input |-> << >>, formatted_data |-> << >>,
     ret |-> << >>,
     \* what rag() and the geocoding request came to, and the instance
     \* validate_research called get_validated_research on, for the record
     rag_answer |-> << >>, maps_reply |-> << >>, used |-> 0]

insert_research_insight_twice(table, data) ==
    table (+) SetToBag({data.query}) (+) SetToBag({data.query})

\* insert_research_insight: one row is added to research_insights.
insert_research_insight(table, data) == table (+) SetToBag({data.query})

\* asyncio.create_task: the coroutine is scheduled, not run.
create_task_run(b) == "done"
create_task(b) == "created"

\* {"message": "Research has started"}
ResearchHasStarted ==
    [kind |-> "json", status |-> 200, body |-> <<"Research has started">>]

\* ------------------------------------------------------------------ Init
Requests ==
    [message : Messages, user_id : UserIds, param : Params, reference : {"ref"}]

\* A /chat request arrives.
ChatInit(r) ==
    /\ request = r
    /\ hpc = "start"
    /\ thread_id = None
    /\ verdict = << >>
    /\ responses = << >>
    /\ calls = << >>
    /\ gen = NoGen
    /\ gpc = "idle"
    /\ frames = << >>
    /\ ridx = 0
    /\ final_message = None
    /\ first_chunk_time = None
    /\ full_response_content = << >>
    /\ chunk = << >>
    /\ nevents = 0
    /\ deltas = << >>
    /\ received = << >>
    /\ thread = << >>
    /\ workers = << >>
    /\ saves = << >>
    /\ disconnected = FALSE

SessionInit ==
    /\ zep_threads = << >>
    /\ nrequests = 1

\* The validator pipeline before any request to it.
ValidatorIdle ==
    /\ validator = 0
    /\ instances = 0
    /\ research = NoResearch
    /\ vresponses = << >>
    /\ bpc = "none"
    /\ completion = << >>
    /\ classification = << >>
    /\ tasks = << >>
    /\ formatted_results = << >>
    /\ research_insights = EmptyBag

Init ==
    /\ \E r \in Requests : ChatInit(r)
    /\ SessionInit
    /\ env = AllKeys
    /\ ValidatorIdle

\* ------------------------------------------------------------------ unified_chat
\* uuid.uuid4().hex: an id no thread has yet.
UuidPool == <<"t1", "t2", "t3", "t4", "t5", "t6">>
uuid4(threads) == UuidPool[Len(threads) + 1]

\* check_user: no thread for an empty user id or when the memory service
\* fails (ok = FALSE), else a thread with a fresh id is created for the user.
check_user(threads, user_id, ok) ==
    IF user_id = "" \/ ~ok
    THEN [thread_id |-> None, threads |-> threads]
    ELSE [thread_id |-> uuid4(threads),
          threads |-> Append(threads, [thread_id |-> uuid4(threads),
                                       user_id |-> user_id])]

\* thread_id = check_user(request.user_id)
CheckUser ==
    /\ hpc = "start"
    /\ \E ok \in BOOLEAN :
          LET r == check_user(zep_threads, request.user_id, ok) IN
          /\ thread_id' = r.thread_id
          /\ zep_threads' = r.threads
          /\ calls' = IF r.threads # zep_threads
                      THEN Append(calls, ThreadCreate(r.thread_id, request.user_id))
                      ELSE calls
    /\ hpc' = "classify"
    /\ UNCHANGED <<request, verdict, responses, thread, workers, saves>>
    /\ UNCHANGED gvars
    /\ UNCHANGED <<nrequests, xvars>>

\* The classifier agent is run on the raw message; the handler then goes on to
\* its next await or to its return.
Classify ==
    /\ hpc = "classify"
    /\ LET agent == ClassifierFor(request.param) IN
       \/ \* Runner.run raises
          /\ calls' = Append(calls, RunnerRun(agent, request.message, "raise"))
          /\ Return(unified_chat_except(<<"ClassifierError">>))
          /\ UNCHANGED verdict
       \/ \E output \in OutputType(agent) :
               LET s == Route(request.param, output) IN
               /\ calls' = Append(calls, RunnerRun(agent, request.message, "ok"))
               /\ verdict' = <<output>>
               /\ CASE s = REJECT ->
                        IF ~HasAttr(output, "reason") \/ ~HasAttr(output, "solution")
                        THEN Return(unified_chat_except(AttributeError))
                        ELSE Return(BranchResponse(s,
                               get_error_stream_response(output.reason,
                                                         output.solution),
                               NullResponse))
                    [] s = TRIP -> hpc' = "trip" /\ UNCHANGED <<responses, gen, gpc>>
                    [] s = EXPLORE ->
                        hpc' = "explore_trigger" /\ UNCHANGED <<responses, gen, gpc>>
                    [] s = STREAM ->
                        Return(BranchResponse(s, StreamingResponse(StreamGen),
                                              NullResponse))
    /\ UNCHANGED <<request, thread_id, thread, workers, saves, frames, ridx,
                   final_message, first_chunk_time, full_response_content, chunk,
                   nevents, deltas, received, disconnected>>
    /\ UNCHANGED <<svars, xvars>>

\* get_complete_response: the trip extraction agent is run on the raw message
\* and its result appended to the thread; any error is wrapped.
ExtractTrip ==
    /\ hpc = "trip"
    /\ \/ \* Runner.run raises
          LET r == get_complete_response_except(<<"ExtractionError">>) IN
          /\ calls' = Append(calls, RunnerRun("trip_planning_agent", request.message, "raise"))
          /\ Return(IF r.raised THEN unified_chat_except(r.value)
                    ELSE JSONResponse([response |-> r.value, type |-> "non-streaming"]))
          /\ UNCHANGED thread
       \/ \* the agent returns a TripPlan, add_message raises
          LET r == get_complete_response_except(<<"MemoryError">>) IN
          /\ calls' = calls \o <<RunnerRun("trip_planning_agent", request.message, "ok"),
                                  AddMessage("assistant", <<"TripPlan">>, "raise")>>
          /\ Return(IF r.raised THEN unified_chat_except(r.value)
                    ELSE JSONResponse([response |-> r.value, type |-> "non-streaming"]))
          /\ UNCHANGED thread
       \/ \* the agent returns a TripPlan, add_message succeeds
          /\ calls' = calls \o <<RunnerRun("trip_planning_agent", request.message, "ok"),
                                  AddMessage("assistant", <<"TripPlan">>, "ok")>>
          /\ thread' = add_message(thread, <<"TripPlan">>, thread_id, "assistant")
          /\ Return(BranchResponse(TRIP, NullResponse,
                JSONResponse([response |-> <<"TripPlan", "timing_info">>,
                              type |-> "non-streaming"])))
    /\ UNCHANGED <<request, thread_id, verdict, workers, saves, frames, ridx,
                   final_message, first_chunk_time, full_response_content, chunk,
                   nevents, deltas, received, disconnected>>
    /\ UNCHANGED <<svars, xvars>>

\* get_complete_response_explore, up to its await: research_further(message),
\* outside the try block.
ExploreTrigger ==
    /\ hpc = "explore_trigger"
    /\ \/ \* the worker thread is started
          /\ workers' = start(workers, research_further(request.message))
          /\ hpc' = "explore"
          /\ UNCHANGED <<responses, gen, gpc>>
       \/ \* thread.start() raises
          /\ Return(unified_chat_except(<<"RuntimeError">>))
          /\ UNCHANGED workers
    /\ UNCHANGED <<request, thread_id, verdict, calls, thread, saves, frames, ridx,
                   final_message, first_chunk_time, full_response_content, chunk,
                   nevents, deltas, received, disconnected>>
    /\ UNCHANGED <<svars, xvars>>

\* get_complete_response_explore, from its await on.
ExtractExplore ==
    /\ hpc = "explore"
    /\ \/ \* Runner.run raises
          LET r == get_complete_response_explore_except(<<"ExtractionError">>) IN
          /\ calls' = Append(calls, RunnerRun("explore_planning_agent", request.message, "raise"))
          /\ Return(IF r.raised THEN unified_chat_except(r.value)
                    ELSE JSONResponse([response |-> r.value, type |-> "non-streaming"]))
          /\ UNCHANGED thread
       \/ \* the agent returns an ExploreResponse, add_message raises
          LET r == get_complete_response_explore_except(<<"MemoryError">>) IN
          /\ calls' = calls \o <<RunnerRun("explore_planning_agent", request.message, "ok"),
                                  AddMessage("assistant", <<"ExploreResponse">>, "raise")>>
          /\ Return(IF r.raised THEN unified_chat_except(r.value)
                    ELSE JSONResponse([response |-> r.value, type |-> "non-streaming"]))
          /\ UNCHANGED thread
       \/ \* the agent returns an ExploreResponse, add_message succeeds
          /\ calls' = calls \o <<RunnerRun("explore_planning_agent", request.message, "ok"),
                                  AddMessage("assistant", <<"ExploreResponse">>, "ok")>>
          /\ thread' = add_message(thread, <<"ExploreResponse">>, thread_id, "assistant")
          /\ Return(BranchResponse(EXPLORE, NullResponse,
                JSONResponse([response |-> <<"ExploreResponse", "timing_info">>,
                              type |-> "non-streaming"])))
    /\ UNCHANGED <<request, thread_id, verdict, workers, saves, frames, ridx,
                   final_message, first_chunk_time, full_response_content, chunk,
                   nevents, deltas, received, disconnected>>
    /\ UNCHANGED <<svars, xvars>>

\* ------------------------------------------------------------------ rejection stream
\* The chunks list of error_stream_generator.
RejectChunks(reason, solution) ==
    << <<"{\"">>, <<"answer">>, <<"\":\"">>,
       <<"Your">>, <<" message">>, <<" was">>, <<" blocked">>, <<" by">>,
       <<" our">>, <<" content">>,
       <<" policy">>, <<" because">>, <<" it">>, <<" was">>, <<" flagged">>,
       <<" as">>,
       <<" inappropriate. \n\n">>,
       <<" Reason:">>, <<" ", reason, " \n\n">>,
       <<"Solution:">>, <<" ", solution>>,
       <<"">> >>

\* The frames error_stream_generator yields, in order.
RejectFrames(reason, solution) ==
    LET chunks == RejectChunks(reason, solution) IN
    <<StartedFrame, TtfbFrame>>
        \o [i \in 1..Len(chunks) |-> ContentFrame(chunks[i])]
        \o <<BlockedDoneFrame>>

\* error_stream_generator runs to its next yield.
RejectYield ==
    /\ gen.name = "reject"
    /\ gpc \in {"start", "yielded"}
    /\ ridx < Len(RejectFrames(gen.reason, gen.solution))
    /\ frames' = Append(frames, RejectFrames(gen.reason, gen.solution)[ridx + 1])
    /\ ridx' = ridx + 1
    /\ gpc' = "yielded"
    /\ UNCHANGED <<gen, final_message, first_chunk_time, full_response_content,
                   chunk, nevents, deltas, received, disconnected>>
    /\ UNCHANGED <<hvars, calls, thread, workers, saves>>
    /\ UNCHANGED <<svars, xvars>>

\* error_stream_generator is resumed after its last yield and returns.
RejectReturn ==
    /\ gen.name = "reject"
    /\ gpc = "yielded"
    /\ ridx = Len(RejectFrames(gen.reason, gen.solution))
    /\ gpc' = "closed"
    /\ UNCHANGED <<gen, frames, ridx, final_message, first_chunk_time,
                   full_response_content, chunk, nevents, deltas, received, disconnected>>
    /\ UNCHANGED <<hvars, calls, thread, workers, saves>>
    /\ UNCHANGED <<svars, xvars>>

\* ------------------------------------------------------------------ generate_stream
NeedsTtfbAlways(fct) == TRUE

NeedsTtfbNever(fct) == FALSE

\* if first_chunk_time is None
NeedsTtfb(fct) == fct = None

ErrorFramesThenDone(e) == <<ErrorFrame(e), DoneFrame>>

\* except Exception as e: the frames the handler yields.
ErrorFrames(e) == <<ErrorFrame(e)>>

ShouldSaveWithThread(tid, content) == tid # None

\* finally: if thread_id and full_response_content
ShouldSave(tid, content) == tid # None /\ content # << >>

\* An exception raised in the try block: the handler's frames are emitted and
\* the generator is suspended at the handler's yield.
GenRaise(e) ==
    /\ frames' = frames \o ErrorFrames(e)
    /\ gpc' = "last"

\* add_message(role='user') and get_message.
GenPrologue ==
    /\ gen.name = "stream"
    /\ gpc = "start"
    /\ \/ \* add_message raises
          /\ calls' = Append(calls, AddMessage("user", request.message, "raise"))
          /\ GenRaise("MemoryError")
          /\ UNCHANGED <<thread, final_message>>
       \/ \* add_message succeeds, get_message raises
          /\ calls' = calls \o <<AddMessage("user", request.message, "ok"),
                                  Call("get_message", thread_id, None, "raise")>>
          /\ thread' = add_message(thread, request.message, thread_id, "user")
          /\ GenRaise("MemoryError")
          /\ UNCHANGED final_message
       \/ \* both succeed
          /\ calls' = calls \o <<AddMessage("user", request.message, "ok"),
                                  Call("get_message", thread_id, None, "ok")>>
          /\ thread' = add_message(thread, request.message, thread_id, "user")
          /\ \E ctx \in Contexts : final_message' = ctx
          /\ gpc' = "trigger"
          /\ UNCHANGED frames
    /\ UNCHANGED <<gen, ridx, first_chunk_time, full_response_content, chunk,
                   nevents, deltas, received, disconnected>>
    /\ UNCHANGED <<hvars, workers, saves>>
    /\ UNCHANGED <<svars, xvars>>

\* research_further(final_message)
GenTrigger ==
    /\ gen.name = "stream"
    /\ gpc = "trigger"
    /\ \/ \* the worker thread is started
          /\ workers' = start(workers, research_further(final_message))
          /\ gpc' = "run"
          /\ UNCHANGED frames
       \/ \* thread.start() raises
          /\ GenRaise("RuntimeError")
          /\ UNCHANGED workers
    /\ UNCHANGED <<gen, ridx, final_message, first_chunk_time,
                   full_response_content, chunk, nevents, deltas, received, disconnected>>
    /\ UNCHANGED <<hvars, calls, thread, saves>>
    /\ UNCHANGED <<svars, xvars>>

\* The agent input is built, Runner.run_streamed is called and the started
\* frame is yielded.
GenStarted ==
    /\ gen.name = "stream"
    /\ gpc = "run"
    /\ IF final_message = None
       THEN \* None + str raises TypeError
            /\ GenRaise("TypeError")
            /\ UNCHANGED calls
       ELSE /\ calls' = Append(calls, RunnerRunStreamed("general_agent",
                   <<final_message, request.message, request.reference>>))
            /\ frames' = Append(frames, Frame("started", <<thread_id>>, FALSE))
            /\ gpc' = "loop"
    /\ UNCHANGED <<gen, ridx, final_message, first_chunk_time,
                   full_response_content, chunk, nevents, deltas, received, disconnected>>
    /\ UNCHANGED <<hvars, thread, workers, saves>>
    /\ UNCHANGED <<svars, xvars>>

\* One event of result.stream_events() that carries a text delta.
GenDelta ==
    /\ gen.name = "stream"
    /\ gpc = "loop"
    /\ nevents < MaxEvents
    /\ nevents' = nevents + 1
    /\ \E d \in Deltas :
          /\ received' = Append(received, d)
          /\ IF d = << >>
             THEN UNCHANGED <<frames, gpc, first_chunk_time, full_response_content,
                              chunk, deltas>>
             ELSE /\ deltas' = Append(deltas, d)
                  /\ IF NeedsTtfb(first_chunk_time)
                     THEN /\ first_chunk_time' = "set"
                          /\ frames' = Append(frames, TtfbFrame)
                          /\ chunk' = d
                          /\ gpc' = "ttfb"
                          /\ UNCHANGED full_response_content
                     ELSE /\ full_response_content' = full_response_content \o d
                          /\ frames' = Append(frames, ContentFrame(d))
                          /\ UNCHANGED <<gpc, first_chunk_time, chunk>>
    /\ UNCHANGED <<gen, ridx, final_message, disconnected>>
    /\ UNCHANGED <<hvars, calls, thread, workers, saves>>
    /\ UNCHANGED <<svars, xvars>>

\* One event that is not a text delta.
GenOtherEvent ==
    /\ gen.name = "stream"
    /\ gpc = "loop"
    /\ nevents < MaxEvents
    /\ nevents' = nevents + 1
    /\ UNCHANGED <<gen, gpc, frames, ridx, final_message, first_chunk_time,
                   full_response_content, chunk, deltas, received, disconnected>>
    /\ UNCHANGED <<hvars, calls, thread, workers, saves>>
    /\ UNCHANGED <<svars, xvars>>

\* The generator is resumed after the time_to_first_byte yield: the chunk is
\* accumulated and yielded.
GenContent ==
    /\ gen.name = "stream"
    /\ gpc = "ttfb"
    /\ full_response_content' = full_response_content \o chunk
    /\ frames' = Append(frames, ContentFrame(chunk))
    /\ gpc' = "loop"
    /\ UNCHANGED <<gen, ridx, final_message, first_chunk_time, chunk, nevents,
                   deltas, received, disconnected>>
    /\ UNCHANGED <<hvars, calls, thread, workers, saves>>
    /\ UNCHANGED <<svars, xvars>>

\* The model's stream ends: the done frame is yielded.
GenDone ==
    /\ gen.name = "stream"
    /\ gpc = "loop"
    /\ frames' = Append(frames, DoneFrame)
    /\ gpc' = "last"
    /\ UNCHANGED <<gen, ridx, final_message, first_chunk_time,
                   full_response_content, chunk, nevents, deltas, received, disconnected>>
    /\ UNCHANGED <<hvars, calls, thread, workers, saves>>
    /\ UNCHANGED <<svars, xvars>>

\* The model's stream raises.
GenStreamError ==
    /\ gen.name = "stream"
    /\ gpc = "loop"
    /\ GenRaise("StreamError")
    /\ UNCHANGED <<gen, ridx, final_message, first_chunk_time,
                   full_response_content, chunk, nevents, deltas, received, disconnected>>
    /\ UNCHANGED <<hvars, calls, thread, workers, saves>>
    /\ UNCHANGED <<svars, xvars>>

\* finally: the save_message task is created when there is a thread and text.
Finally ==
    saves' = IF ShouldSave(thread_id, full_response_content)
             THEN Append(saves, [state |-> "scheduled", thread_id |-> thread_id,
                                 message |-> full_response_content])
             ELSE saves

\* The generator is resumed after its last yield: finally runs, it returns.
GenReturn ==
    /\ gen.name = "stream"
    /\ gpc = "last"
    /\ Finally
    /\ gpc' = "closed"
    /\ UNCHANGED <<gen, frames, ridx, final_message, first_chunk_time,
                   full_response_content, chunk, nevents, deltas, received, disconnected>>
    /\ UNCHANGED <<hvars, calls, thread, workers>>
    /\ UNCHANGED <<svars, xvars>>

CatchesBaseException(e) == TRUE

\* except Exception as e: GeneratorExit and CancelledError derive from
\* BaseException only and pass through the clause.
Catches(e) == e \notin {"GeneratorExit", "CancelledError"}

\* The client goes away while a generator is suspended: the generator is
\* closed where it stands (GeneratorExit thrown at the yield, CancelledError
\* at the await on the model's stream), finally runs.
ClientDisconnect ==
    /\ \/ /\ gen.name = "stream" /\ gpc \in {"loop", "ttfb", "last"} /\ Finally
          /\ \E e \in {"GeneratorExit", "CancelledError"} :
                frames' = IF Catches(e) THEN frames \o ErrorFrames(e) ELSE frames
       \/ gen.name = "reject" /\ gpc = "yielded" /\ UNCHANGED <<saves, frames>>
    /\ gpc' = "closed"
    /\ disconnected' = TRUE
    /\ UNCHANGED <<gen, ridx, final_message, first_chunk_time,
                   full_response_content, chunk, nevents, deltas, received>>
    /\ UNCHANGED <<hvars, calls, thread, workers>>
    /\ UNCHANGED <<svars, xvars>>

\* save_message: the task appends the assistant's text, or fails unseen.
SaveMessage ==
    /\ \E i \in 1..Len(saves) :
          /\ saves[i].state = "scheduled"
          /\ \/ /\ calls' = Append(calls,
                              AddMessage("assistant", saves[i].message, "ok"))
                /\ thread' = add_message(thread, saves[i].message,
                                         saves[i].thread_id, "assistant")
                /\ saves' = [saves EXCEPT ![i].state = "ok"]
             \/ /\ calls' = Append(calls,
                              AddMessage("assistant", saves[i].message, "raise"))
                /\ saves' = [saves EXCEPT ![i].state = "failed"]
                /\ UNCHANGED thread
    /\ UNCHANGED <<hvars, gvars, workers>>
    /\ UNCHANGED <<svars, xvars>>

\* ------------------------------------------------------------------ _send_request
\* The worker thread checks its input and posts the query.
WorkerPost ==
    /\ \E i \in 1..Len(workers) :
          /\ workers[i].state = "started"
          /\ workers' = IF IsBlank(workers[i].query)
                        THEN [workers EXCEPT ![i].state = "skipped"]
                        ELSE [workers EXCEPT ![i].state = "pending",
                                             ![i].attempts = @ + 1]
    /\ UNCHANGED <<hvars, gvars, calls, thread, saves>>
    /\ UNCHANGED <<svars, xvars>>

\* The post resolves: a response, or a RequestException that is logged.
WorkerResolve ==
    /\ \E i \in 1..Len(workers) :
          /\ workers[i].state = "pending"
          /\ \E r \in {"ok", "failed"} :
                workers' = [workers EXCEPT ![i].state = r]
    /\ UNCHANGED <<hvars, gvars, calls, thread, saves>>
    /\ UNCHANGED <<svars, xvars>>

\* ------------------------------------------------------------------ specification
Next ==
    \/ CheckUser
    \/ Classify
    \/ ExtractTrip
    \/ ExploreTrigger
    \/ ExtractExplore
    \/ RejectYield
    \/ RejectReturn
    \/ GenPrologue
    \/ GenTrigger
    \/ GenStarted
    \/ GenDelta
    \/ GenOtherEvent
    \/ GenContent
    \/ GenDone
    \/ GenStreamError
    \/ GenReturn
    \/ ClientDisconnect
    \/ SaveMessage
    \/ WorkerPost
    \/ WorkerResolve

Spec == Init /\ [][Next]_vars

\* ------------------------------------------------------------------ sessions
\* The /chat request has been served to its end: the handler has returned, the
\* response has been sent, the tasks and threads it started have ended.
Served ==
    /\ hpc = "done"
    /\ gpc \in {"idle", "closed"}
    /\ \A i \in 1..Len(saves) : saves[i].state # "scheduled"
    /\ \A i \in 1..Len(workers) : workers[i].state \notin {"started", "pending"}

\* The next /chat request arrives: a new run of unified_chat, on the memory
\* service as the requests before left it.
NextRequest ==
    /\ Served
    /\ nrequests < MaxRequests
    /\ nrequests' = nrequests + 1
    /\ request' \in Requests
    /\ hpc' = "start"
    /\ thread_id' = None
    /\ verdict' = << >>
    /\ responses' = << >>
    /\ calls' = << >>
    /\ gen' = NoGen
    /\ gpc' = "idle"
    /\ frames' = << >>
    /\ ridx' = 0
    /\ final_message' = None
    /\ first_chunk_time' = None
    /\ full_response_content' = << >>
    /\ chunk' = << >>
    /\ nevents' = 0
    /\ deltas' = << >>
    /\ received' = << >>
    /\ thread' = << >>
    /\ workers' = << >>
    /\ saves' = << >>
    /\ disconnected' = FALSE
    /\ UNCHANGED <<zep_threads, xvars>>

SessionNext ==
    \/ Next
    \/ NextRequest

SpecSession == Init /\ [][SessionNext]_vars

\* ------------------------------------------------------------------ observations
HasVerdict == verdict # << >>
Verdict == verdict[1]

\* The agent was run (Runner.run or Runner.run_streamed was called on it).
Ran(agent) ==
    \E i \in 1..Len(calls) :
        calls[i].op \in {"Runner.run", "Runner.run_streamed"} /\ calls[i].target = agent

\* The agent was run and the run raised.
RanAndRaised(agent) ==
    \E i \in 1..Len(calls) :
        calls[i].op = "Runner.run" /\ calls[i].target = agent
        /\ calls[i].outcome = "raise"

NoExtractionAgent == ~Ran("trip_planning_agent") /\ ~Ran("explore_planning_agent")
NoStreamingResponder == gen.name # "stream" /\ ~Ran("general_agent")

IsHttpError(r) == r.kind = "http_error"

\* The frame's content holds the text as one of its parts.
Holds(frame, text) ==
    frame.kind = "content" /\ \E j \in 1..Len(frame.content) : frame.content[j] = text

\* ------------------------------------------------------------------ claims
\* C1: an invalid verdict (isValid = false) is answered, in explore mode and in
\* default mode alike, with the streamed rejection response: the frames started,
\* time_to_first_byte, content frames that hold the verdict's reason, and done
\* with blocked = true; neither the streaming responder nor an extraction agent
\* is started.
C1_InvalidVerdictIsRejected ==
    (HasVerdict /\ ~Verdict.isValid) =>
        /\ Len(responses) = 1
        /\ responses[1].kind = "sse"
        /\ gen.name = "reject"
        /\ NoExtractionAgent
        /\ NoStreamingResponder
        /\ workers = << >>
        /\ (gpc = "closed" /\ ~disconnected) =>
              /\ Kinds(frames) = Kinds(RejectFrames(Verdict.reason, gen.solution))
              /\ frames[Len(frames)] = BlockedDoneFrame
              /\ \E i \in 1..Len(frames) : Holds(frames[i], Verdict.reason)

\* C2: in explore mode a valid plan-related verdict takes the trip extraction
\* (get_complete_response with trip_planning_agent), also when it is travel
\* related with travel_type "specific-search-query"; the explore extraction and
\* the streaming responder are not started.
C2_PlanRelatedTakesTripExtraction ==
    (request.param = "explore" /\ HasVerdict /\ Verdict.isValid
     /\ Verdict.isPlanRelated) =>
        /\ hpc \in {"trip", "done"}
        /\ hpc = "done" => Ran("trip_planning_agent")
        /\ ~Ran("explore_planning_agent")
        /\ workers = << >>
        /\ NoStreamingResponder
        /\ frames = << >>

C2_Witness ==
    /\ request.param = "explore" /\ HasVerdict /\ Verdict.isValid
    /\ Verdict.isPlanRelated /\ Verdict.isTravelRelated
    /\ Verdict.travel_type = "specific-search-query"
    /\ hpc = "done"
    /\ Ran("trip_planning_agent")
    /\ responses[1].kind = "json"

\* The decision function of the specification, for a valid verdict.
SpecStrategy(param, v) ==
    IF param = "explore"
    THEN IF v.isPlanRelated THEN TRIP
         ELSE IF v.isTravelRelated /\ v.travel_type = "specific-search-query"
              THEN EXPLORE
         ELSE STREAM
    ELSE IF v.isTravelRelated THEN TRIP ELSE STREAM

\* What unified_chat is seen to have chosen.
ChoseTrip ==
    /\ hpc = "trip" \/ Ran("trip_planning_agent")
    /\ ~Ran("explore_planning_agent") /\ workers = << >> /\ NoStreamingResponder
ChoseExplore ==
    /\ \/ hpc \in {"explore_trigger", "explore"}
       \/ Ran("explore_planning_agent")
       \/ hpc = "done" /\ responses[1].body = <<"RuntimeError">>
    /\ ~Ran("trip_planning_agent") /\ NoStreamingResponder
ChoseStream ==
    /\ hpc = "done" /\ gen.name = "stream" /\ responses[1].kind = "sse"
    /\ NoExtractionAgent

\* C3: for every valid verdict and every value of param, the strategy
\* unified_chat chooses is the one the specification's decision function gives.
C3_StrategyIsSpecDecision ==
    (HasVerdict /\ Verdict.isValid) =>
        LET s == SpecStrategy(request.param, Verdict) IN
        /\ s = TRIP => ChoseTrip
        /\ s = EXPLORE => ChoseExplore
        /\ s = STREAM => ChoseStream

C3_Witness ==
    /\ request.param = "" /\ HasVerdict /\ Verdict.isValid
    /\ Verdict.isTravelRelated
    /\ hpc = "done" /\ Ran("trip_planning_agent") /\ responses[1].kind = "json"

\* C4: a request that does not end in an HTTP error resolves to exactly one
\* envelope, a frame sequence or one JSON object {response, type:
\* "non-streaming"}; frames are emitted only for a streamed response, never
\* beside a JSON body.
C4_OneEnvelope ==
    /\ Len(responses) <= 1
    /\ hpc = "done" <=> Len(responses) = 1
    /\ frames # << >> => (Len(responses) = 1 /\ responses[1].kind = "sse")
    /\ (hpc = "done" /\ ~IsHttpError(responses[1])) =>
          /\ responses[1].kind \in {"sse", "json"}
          /\ responses[1].kind = "json" =>
                /\ responses[1].body.type = "non-streaming"
                /\ gen.name = "none"
                /\ frames = << >>
          /\ responses[1].kind = "sse" => gen.name \in {"stream", "reject"}

C4_Witness ==
    /\ hpc = "done" /\ responses[1].kind = "sse"
    /\ gen.name = "stream" /\ gpc = "closed" /\ ~disconnected
    /\ Len(frames) >= 4

\* generate_stream ended on its success path: the done frame was yielded.
StreamSucceeded ==
    /\ gen.name = "stream"
    /\ gpc \in {"last", "closed"}
    /\ frames # << >>
    /\ frames[Len(frames)].kind = "done"

\* C5 as stated: the frame kinds of a successful stream are started,
\* time_to_first_byte, any number (zero or more) of content, done.
C5_FrameKindsAsStated ==
    StreamSucceeded =>
        LET k == Kinds(frames) IN
        /\ Len(k) >= 3
        /\ k[1] = "started"
        /\ k[2] = "time_to_first_byte"
        /\ \A i \in 3..(Len(k) - 1) : k[i] = "content"
        /\ k[Len(k)] = "done"

\* C5, amended: the frame kinds of a successful stream are started, done when
\* the model sent no non-empty text chunk, and started, time_to_first_byte, one
\* content per non-empty chunk, done otherwise.
C5_FrameKinds ==
    StreamSucceeded =>
        LET k == Kinds(frames) IN
        IF deltas = << >>
        THEN k = <<"started", "done">>
        ELSE k = <<"started", "time_to_first_byte">>
                   \o [i \in 1..Len(deltas) |-> "content"] \o <<"done">>

C5_Witness ==
    /\ StreamSucceeded /\ gpc = "closed" /\ ~disconnected
    /\ Len(deltas) >= 2

IsTerminal(frame) == frame.kind \in {"done", "error"}
Terminals == {i \in 1..Len(frames) : IsTerminal(frames[i])}
GeneralAgentRuns ==
    Cardinality({i \in 1..Len(calls) : calls[i].target = "general_agent"})

\* C6: a frame sequence of generate_stream that no disconnect cuts ends with
\* exactly one terminal frame, done or error and never both; no frame follows
\* the terminal frame, and the general agent is run at most once.
C6_OneTerminalFrame ==
    gen.name = "stream" =>
        /\ Cardinality(Terminals) <= 1
        /\ \A i \in Terminals : i = Len(frames)
        /\ (gpc = "closed" /\ ~disconnected) => Cardinality(Terminals) = 1
        /\ gpc \in {"last", "closed"} \/ Terminals = {}
        /\ GeneralAgentRuns <= 1

C6_Witness ==
    /\ gen.name = "stream" /\ gpc = "closed" /\ ~disconnected
    /\ Len(frames) >= 4
    /\ frames[Len(frames)].kind = "error"
    /\ frames[Len(frames) - 1].kind = "content"
    /\ GeneralAgentRuns = 1

\* The text the content frames carry, joined in order.
RECURSIVE ContentOf(_)
ContentOf(fs) ==
    IF fs = << >> THEN << >>
    ELSE (IF Head(fs).kind = "content" THEN Head(fs).content ELSE << >>)
             \o ContentOf(Tail(fs))

\* The assistant messages appended to the thread, in order.
AssistantMessages == SelectSeq(thread, LAMBDA m : m.msg.role = "assistant")
SavesDone == SelectSeq(saves, LAMBDA t : t.state = "ok")

StreamCompleted == gen.name = "stream" /\ gpc = "closed" /\ ~disconnected

\* C7 as stated: after a stream completes, on the success path and on the error
\* path alike, a task that appends the full accumulated text is scheduled
\* exactly once.
C7_SaveScheduledAsStated ==
    StreamCompleted =>
        /\ Len(saves) = 1
        /\ saves[1].message = ContentOf(frames)

\* C7, amended: after a stream completes, on either path, the accumulated text
\* is appended as an assistant message exactly once when there is a thread id
\* and the text is not empty, and not at all otherwise; the task that appends it
\* is created after the last frame, and its failure adds no frame and no HTTP
\* error.
C7_SaveScheduled ==
    gen.name = "stream" =>
        /\ gpc # "closed" => saves = << >>
        /\ StreamCompleted =>
              IF thread_id # None /\ ContentOf(frames) # << >>
              THEN /\ Len(saves) = 1
                   /\ saves[1].message = ContentOf(frames)
                   /\ saves[1].thread_id = thread_id
              ELSE saves = << >>
        /\ Len(AssistantMessages) = Len(SavesDone)
        /\ \A i \in 1..Len(AssistantMessages) :
              AssistantMessages[i].msg.content = ContentOf(frames)
        /\ saves # << >> =>
              /\ Cardinality(Terminals) <= 1
              /\ saves[1].message = ContentOf(frames)
              /\ Len(responses) = 1 /\ responses[1].kind = "sse"

C7_Witness ==
    /\ StreamCompleted
    /\ frames[Len(frames)].kind = "error"
    /\ Len(deltas) >= 2
    /\ Len(saves) = 1 /\ saves[1].state = "ok"
    /\ Len(AssistantMessages) = 1

ExtractionRaised ==
    RanAndRaised("trip_planning_agent") \/ RanAndRaised("explore_planning_agent")

\* C8: an error raised while the extraction agent runs is wrapped into one
\* "Agent error" and surfaces as HTTP 500; no JSON response is returned and no
\* result, whole or partial, reaches the client or the thread.
C8_ExtractionErrorIs500 ==
    ExtractionRaised =>
        /\ hpc = "done"
        /\ Len(responses) = 1
        /\ responses[1].kind = "http_error"
        /\ responses[1].status = 500
        /\ responses[1].body[1] = "Agent error"
        /\ AssistantMessages = << >>
        /\ frames = << >>

C8_Witness ==
    /\ RanAndRaised("explore_planning_agent")
    /\ responses[1].status = 500
    /\ workers # << >>

ClassifierRaised ==
    RanAndRaised("validation_agent") \/ RanAndRaised("explore_travel_agent")

\* C9: when the classifier agent raises, the request ends with HTTP 500: there
\* is no rejection stream, and no extraction agent, streaming responder or
\* enrichment trigger is started.
C9_ClassifierErrorIs500 ==
    ClassifierRaised =>
        /\ hpc = "done"
        /\ Len(responses) = 1
        /\ responses[1].kind = "http_error"
        /\ responses[1].status = 500
        /\ gen.name = "none"
        /\ frames = << >>
        /\ NoExtractionAgent
        /\ NoStreamingResponder
        /\ workers = << >>
        /\ ~HasVerdict

C9_Witness ==
    /\ RanAndRaised("explore_travel_agent")
    /\ hpc = "done"
    /\ responses[1].status = 500

\* A step in which research_further is called and returns.
TriggerReturns == Len(workers') = Len(workers) + 1

Resolved(w) == w.state \in {"ok", "failed"}

\* C10: research_further returns before the call to the validator endpoint
\* resolves, and the caller's next step (the started frame of generate_stream,
\* the extraction call of get_complete_response_explore) is enabled whatever
\* the state of that call.
C10_TriggerReturnsAtOnce ==
    /\ [][TriggerReturns => ~Resolved(workers'[Len(workers')])]_vars
    /\ [](hpc = "explore" => ENABLED ExtractExplore)
    /\ []((gen.name = "stream" /\ gpc = "run") => ENABLED GenStarted)

C10_Witness ==
    /\ gen.name = "stream"
    /\ frames # << >> /\ frames[1].kind = "started"
    /\ workers # << >> /\ workers[1].state = "pending"

\* ------------------------------------------------------------------ validate_research
\* The chat endpoint at rest: the validator specifications leave it alone.
ChatIdle ==
    /\ ChatInit([message |-> "", user_id |-> "", param |-> "", reference |-> "ref"])
    /\ SessionInit

\* validate_research is called, the global validator being unset or left set
\* by an earlier call.
ResearchInit ==
    /\ ChatIdle
    /\ env \in Envs
    /\ validator \in {0} \cup (IF ResearchValidatorInit(env) = "ok" THEN {1} ELSE {})
    /\ instances = validator
    /\ research = [NoResearch EXCEPT !.pc = "enter"]
    /\ vresponses = << >>
    /\ bpc = "none"
    /\ completion = << >>
    /\ classification = << >>
    /\ tasks = << >>
    /\ formatted_results = << >>
    /\ research_insights = EmptyBag

pvars == <<vresponses, bpc, completion, classification, tasks,
           formatted_results, research_insights>>

\* if _validator is None: _validator = ResearchValidator()
ValidateResearch ==
    /\ research.pc = "enter"
    /\ IF validator # 0
       THEN /\ research' = [research EXCEPT !.pc = "openai"]
            /\ UNCHANGED <<validator, instances>>
       ELSE CASE ResearchValidatorInit(env) = "ok" ->
                   /\ instances' = instances + 1
                   /\ validator' = instances + 1
                   /\ research' = [research EXCEPT !.pc = "openai"]
              [] ResearchValidatorInit(env) = "ValueError" ->
                   /\ research' = [research EXCEPT !.pc = "returned",
                                                   !.ret = <<InitializationError>>]
                   /\ UNCHANGED <<validator, instances>>
              [] OTHER ->
                   /\ research' = [research EXCEPT !.pc = "raised"]
                   /\ UNCHANGED <<validator, instances>>
    /\ UNCHANGED <<cvars, svars, env, pvars>>

\* openai_result = self.search_openai(query)
SearchOpenAI ==
    /\ research.pc = "openai"
    /\ \E r \in OpenAIResults :
          research' = [research EXCEPT !.pc = "perplexity",
                          !.research_results = Append(@, r)]
    /\ UNCHANGED <<cvars, svars, env, validator, instances, pvars>>

\* perplexity_result = self.search_perplexity(query)
SearchPerplexity ==
    /\ research.pc = "perplexity"
    /\ \E r \in PerplexityResults :
          research' = [research EXCEPT !.pc = "tavily",
                          !.research_results = Append(@, r)]
    /\ UNCHANGED <<cvars, svars, env, validator, instances, pvars>>

\* tavily_result = self.search_tavily(query)
SearchTavily ==
    /\ research.pc = "tavily"
    /\ \E r \in TavilyResults :
          research' = [research EXCEPT !.pc = "synthesize",
                          !.research_results = Append(@, r)]
    /\ UNCHANGED <<cvars, svars, env, validator, instances, pvars>>

\* calculate_similarity_and_synthesize and the rest of get_validated_research.
Synthesize ==
    /\ research.pc = "synthesize"
    /\ IF SynthesisCalled(research.research_results)
       THEN \E llm \in LlmResponses :
               research' = [research EXCEPT
                   !.pc = "returned",
                   !.llm_calls = @ + 1,
                   !.llm = <<llm>>,
                   !.ret = <<get_validated_research(research.research_results, llm)>>]
       ELSE research' = [research EXCEPT
                   !.pc = "returned",
                   !.ret = <<get_validated_research(research.research_results,
                                                    [kind |-> "raise",
                                                     synthesis |-> << >>])>>]
    /\ UNCHANGED <<cvars, svars, env, validator, instances, pvars>>

ResearchNext ==
    \/ ValidateResearch
    \/ SearchOpenAI
    \/ SearchPerplexity
    \/ SearchTavily
    \/ Synthesize

SpecResearch == ResearchInit /\ [][ResearchNext]_vars

\* ------------------------------------------------------------------ /validator/process
\* A request to /validator/process arrives, the global validator being unset
\* or left set by an earlier request.
ValidatorInit ==
    /\ ChatIdle
    /\ env \in Envs
    /\ validator \in {0} \cup (IF ResearchValidatorInit(env) = "ok" THEN {1} ELSE {})
    /\ instances = validator
    /\ research = NoResearch
    /\ vresponses = << >>
    /\ bpc = "none"
    /\ completion = << >>
    /\ classification = << >>
    /\ tasks = << >>
    /\ formatted_results = << >>
    /\ research_insights = EmptyBag

\* validate_query: the background task is created and the message returned.
ValidateQuery ==
    /\ bpc = "none"
    /\ vresponses = << >>
    /\ bpc' = create_task(bpc)
    /\ vresponses' = Append(vresponses, ResearchHasStarted)
    /\ UNCHANGED <<cvars, svars, env, validator, instances, research, completion,
                   classification, tasks, formatted_results, research_insights>>

\* process_in_background, up to its first await: OpenAIService() and
\* SupabaseService() raise when their keys are not set.
BgStart ==
    /\ bpc = "created"
    /\ bpc' = IF env.openai_key /\ env.supabase_keys THEN "classify" ELSE "failed"
    /\ UNCHANGED <<cvars, svars, env, validator, instances, research, vresponses,
                   completion, classification, tasks, formatted_results,
                   research_insights>>

\* classify_query returns or raises; on a classification with queries the
\* pipelines are started: one awaited in place, or several gathered.
BgClassify ==
    /\ bpc = "classify"
    /\ \E parsed \in {<< >>} \cup {<<c>> : c \in QueryClassification} :
          LET r == classify_query(parsed) IN
          /\ completion' = parsed
          /\ IF r.raised
             THEN /\ bpc' = "failed"
                  /\ UNCHANGED <<classification, tasks>>
             ELSE LET queries == r.value[1].queries IN
                  /\ classification' = r.value
                  /\ IF queries = << >>
                     THEN bpc' = "done" /\ UNCHANGED tasks
                     ELSE /\ tasks' = [i \in 1..Len(queries) |->
                                          Task(queries[i], "rag")]
                          /\ bpc' = IF Len(queries) = 1 THEN "single" ELSE "gather"
    /\ UNCHANGED <<cvars, svars, env, validator, instances, research, vresponses,
                   formatted_results, research_insights>>

\* The gathered coroutines share nothing but the global validator, which no
\* result depends on, and the table, where each adds its own row: their steps
\* commute.  One order of each set of commuting steps is followed, the tasks
\* being run in the order gather was given them.
Turn(i) == \A j \in 1..(i - 1) : tasks[j].pc \in {"returned", "raised"}

\* process_query_research returns value: its locals are gone.
TaskReturn(i, value) ==
    tasks' = [tasks EXCEPT ![i] = [Task(tasks[i].query, "returned")
                                     EXCEPT !.ret = <<value>>]]

\* process_query_research raises e.
TaskRaise(i, e) ==
    tasks' = [tasks EXCEPT ![i] = [Task(tasks[i].query, "raised")
                                     EXCEPT !.ret = <<[kind |-> "exception",
                                                       error |-> e]>>]]

\* rag_response = await asyncio.to_thread(rag, query, reference), and
\* has_rag_answer.
RagCheck ==
    /\ \E i \in 1..Len(tasks) :
          /\ tasks[i].pc = "rag"
          /\ Turn(i)
          /\ \E rag \in {<< >>} \cup {<<r>> : r \in RagResponses} :
                tasks' = [tasks EXCEPT ![i].rag_response = rag_context(rag),
                                       ![i].rag_answer = <<rag>>,
                                       ![i].pc = "research"]
    /\ UNCHANGED <<cvars, svars, env, validator, instances, research, vresponses,
                   bpc, completion, classification, formatted_results,
                   research_insights>>

\* validate_research in the worker thread of task i: if _validator is None
validate_research_enter(i) ==
    /\ tasks[i].pc = "research"
    /\ tasks' = [tasks EXCEPT
                    ![i].pc = IF validator = 0 THEN "construct" ELSE "search"]

\* _validator = ResearchValidator(), in the worker thread of task i: the
\* global is bound to the new instance, a ValueError is answered with the
\* initialization error, any other exception leaves validate_research.
validate_research_construct(i) ==
    /\ tasks[i].pc = "construct"
    /\ CASE ResearchValidatorInit(env) = "ok" ->
             /\ instances' = instances + 1
             /\ validator' = instances + 1
             /\ tasks' = [tasks EXCEPT ![i].pc = "search"]
         [] ResearchValidatorInit(env) = "ValueError" ->
             /\ tasks' = [tasks EXCEPT ![i].result = <<InitializationError>>,
                                       ![i].pc = "maps"]
             /\ UNCHANGED <<validator, instances>>
         [] OTHER ->
             /\ TaskRaise(i, "SupabaseException")
             /\ UNCHANGED <<validator, instances>>

\* return _validator.get_validated_research(query), in the worker thread of
\* task i: the global is read and the research made on that instance.
validate_research_return(i) ==
    /\ tasks[i].pc = "search"
    /\ \E r \in ResearchCases :
          tasks' = [tasks EXCEPT ![i].result = <<r>>, ![i].used = validator,
                                 ![i].pc = "maps"]

\* validate_research in its worker thread: if _validator is None
ResearchEnter ==
    /\ \E i \in 1..Len(tasks) :
          /\ Turn(i)
          /\ validate_research_enter(i)
    /\ UNCHANGED <<cvars, svars, env, validator, instances, research, vresponses,
                   bpc, completion, classification, formatted_results,
                   research_insights>>

\* _validator = ResearchValidator()
Construct ==
    /\ \E i \in 1..Len(tasks) :
          /\ Turn(i)
          /\ validate_research_construct(i)
    /\ UNCHANGED <<cvars, svars, env, research, vresponses, bpc, completion,
                   classification, formatted_results, research_insights>>

\* _validator.get_validated_research(query)
Search ==
    /\ \E i \in 1..Len(tasks) :
          /\ Turn(i)
          /\ validate_research_return(i)
    /\ UNCHANGED <<cvars, svars, env, validator, instances, research, vresponses,
                   bpc, completion, classification, formatted_results,
                   research_insights>>

\* The maps lookup, made if location and api_key, and the check of the
\* OpenAI key before the conversion.
Maps ==
    /\ \E i \in 1..Len(tasks) :
          /\ tasks[i].pc = "maps"
          /\ Turn(i)
          /\ \E reply \in {<< >>} \cup {<<r>> : r \in MapsReplies} :
                LET lookup == IF reply = << >>
                              THEN [raised |-> FALSE, value |-> None]
                              ELSE get_google_maps_data(reply[1])
                    conversion_input ==
                        ConversionInput(classification[1].type, tasks[i].query,
                                        tasks[i].rag_response, tasks[i].result[1],
                                        lookup.value)
                IN
                /\ (reply # << >>) <=>
                      (~Falsy(tasks[i].result[1].location) /\ env.maps_key)
                /\ IF lookup.raised
                   THEN TaskRaise(i, "MapsError")
                   ELSE IF ~env.openai_key
                   THEN TaskRaise(i, "ValueError")
                   ELSE tasks' = [tasks EXCEPT
                                     ![i].maps_data = lookup.value,
                                     ![i].maps_reply = reply,
                                     ![i].conversion_input = <<conversion_input>>,
                                     ![i].pc = "convert"]
    /\ UNCHANGED <<cvars, svars, env, validator, instances, research, vresponses,
                   bpc, completion, classification, formatted_results,
                   research_insights>>

\* convert_research_to_attraction: a list of attractions, an empty list, or an
\* exception.
Convert ==
    /\ \E i \in 1..Len(tasks) :
          LET conversion_input ==
                  IF tasks[i].pc = "convert" THEN tasks[i].conversion_input[1]
                  ELSE << >>
          IN
          /\ tasks[i].pc = "convert"
          /\ Turn(i)
          /\ \/ tasks' = [tasks EXCEPT
                    ![i].pc = "insert",
                    ![i].formatted_data = <<Attraction(tasks[i].query)>>]
             \/ TaskReturn(i, conversion_input.results[1])
             \/ LET r == conversion_except(conversion_input, "ConversionError") IN
                IF r.raised THEN TaskRaise(i, "ConversionError")
                ELSE TaskReturn(i, r.value)
    /\ UNCHANGED <<cvars, svars, env, validator, instances, research, vresponses,
                   bpc, completion, classification, formatted_results,
                   research_insights>>

\* supabase_service.insert_research_insight(formatted_data)
Insert ==
    /\ \E i \in 1..Len(tasks) :
          LET formatted_data == tasks[i].formatted_data[1] IN
          /\ tasks[i].pc = "insert"
          /\ Turn(i)
          /\ \/ /\ research_insights' =
                      insert_research_insight(research_insights, formatted_data)
                /\ TaskReturn(i, [formatted_data EXCEPT
                                     !.db_id = <<formatted_data.query>>])
             \/ LET r == insert_except(formatted_data, "RuntimeError") IN
                /\ IF r.raised THEN TaskRaise(i, "RuntimeError")
                   ELSE TaskReturn(i, r.value)
                /\ UNCHANGED research_insights
    /\ UNCHANGED <<cvars, svars, env, validator, instances, research, vresponses,
                   bpc, completion, classification, formatted_results>>

\* process_in_background is resumed: by the result of the one pipeline, by
\* the results of all the gathered pipelines, or by the first exception.
BgJoin ==
    /\ bpc \in {"single", "gather"}
    /\ IF \E i \in 1..Len(tasks) : tasks[i].pc = "raised"
       THEN /\ bpc' = "failed"
            /\ UNCHANGED formatted_results
       ELSE /\ \A i \in 1..Len(tasks) : tasks[i].pc = "returned"
            /\ formatted_results' = [i \in 1..Len(tasks) |-> tasks[i].ret[1]]
            /\ bpc' = "done"
    /\ UNCHANGED <<cvars, svars, env, validator, instances, research, vresponses,
                   completion, classification, tasks, research_insights>>

ValidatorNext ==
    \/ ValidateQuery
    \/ BgStart
    \/ BgClassify
    \/ RagCheck
    \/ ResearchEnter
    \/ Construct
    \/ Search
    \/ Maps
    \/ Convert
    \/ Insert
    \/ BgJoin

SpecValidator == ValidatorInit /\ [][ValidatorNext]_vars

\* ------------------------------------------------------------------ gathered worker threads
\* asyncio.gather has started the pipelines of a generic classification and
\* each has passed its RAG pre-check (here: the RAG call raised): every
\* pipeline is about to run validate_research in a thread of the pool.
GatherInit ==
    /\ ChatIdle
    /\ env \in {e \in Envs : e.openai_key /\ e.supabase_keys}
    /\ validator \in {0} \cup (IF ResearchValidatorInit(env) = "ok" THEN {1} ELSE {})
    /\ instances = validator
    /\ research = NoResearch
    /\ vresponses = <<ResearchHasStarted>>
    /\ bpc = "gather"
    /\ \E c \in QueryClassification :
          /\ c.type = "generic"
          /\ ~classify_query(<<c>>).raised
          /\ completion = <<c>>
          /\ classification = classify_query(<<c>>).value
          /\ tasks = [i \in 1..Len(c.queries) |->
                         [Task(c.queries[i], "research")
                            EXCEPT !.rag_answer = << << >> >>]]
    /\ formatted_results = << >>
    /\ research_insights = EmptyBag

\* The worker threads run validate_research side by side: a thread is
\* suspended between any two of its steps (the construction of a
\* ResearchValidator waits on the network) and any other thread goes on.
ThreadEnter ==
    /\ \E i \in 1..Len(tasks) : validate_research_enter(i)
    /\ UNCHANGED <<cvars, svars, env, validator, instances, research, vresponses,
                   bpc, completion, classification, formatted_results,
                   research_insights>>

ThreadConstruct ==
    /\ \E i \in 1..Len(tasks) : validate_research_construct(i)
    /\ UNCHANGED <<cvars, svars, env, research, vresponses, bpc, completion,
                   classification, formatted_results, research_insights>>

ThreadReturn ==
    /\ \E i \in 1..Len(tasks) : validate_research_return(i)
    /\ UNCHANGED <<cvars, svars, env, validator, instances, research, vresponses,
                   bpc, completion, classification, formatted_results,
                   research_insights>>

GatherNext ==
    \/ ThreadEnter
    \/ ThreadConstruct
    \/ ThreadReturn

SpecGather == GatherInit /\ [][GatherNext]_vars

\* ------------------------------------------------------------------ C11..C20
\* The failure research_further raises when its worker thread cannot be
\* started, as the request shows it: the 500 of unified_chat, or the error
\* frame of generate_stream.
LaunchFailureIn500 ==
    \E i \in 1..Len(responses) :
        IsHttpError(responses[i]) /\ responses[i].body = <<"RuntimeError">>
LaunchFailureInFrames ==
    \E i \in 1..Len(frames) : frames[i] = ErrorFrame("RuntimeError")

\* C11: an invocation of the enrichment trigger posts at most once, and no
\* failure of the trigger (the post failing, or the worker thread failing to
\* start) shows in the frames or in the HTTP response of the /chat request.
C11_TriggerFailureUnseen ==
    /\ \A i \in 1..Len(workers) : workers[i].attempts <= 1
    /\ ~LaunchFailureIn500
    /\ ~LaunchFailureInFrames

\* The positions of the frames of a kind.
Positions(fs, kind) == {i \in 1..Len(fs) : fs[i].kind = kind}

\* C19: in every stream of generate_stream, finished, failed or cancelled, the
\* time_to_first_byte frame is emitted at most once, after the started frame,
\* and no content frame is emitted before it.
C19_TtfbOnceBeforeContent ==
    gen.name = "stream" =>
        /\ Cardinality(Positions(frames, "time_to_first_byte")) <= 1
        /\ \A t \in Positions(frames, "time_to_first_byte") :
              \E s \in Positions(frames, "started") : s < t
        /\ \A c \in Positions(frames, "content") :
              \E t \in Positions(frames, "time_to_first_byte") : t < c

C19_Witness ==
    /\ gen.name = "stream"
    /\ gpc = "closed"
    /\ Kinds(frames) = <<"started", "time_to_first_byte", "content", "content",
                         "error">>

ClassifierAgents == {"explore_travel_agent", "validation_agent"}

\* The runs of a classifier agent, as positions of calls.
ClassifierRuns ==
    {i \in 1..Len(calls) :
        calls[i].op = "Runner.run" /\ calls[i].target \in ClassifierAgents}

\* The calls that start an extraction agent or the general agent, or that
\* append a message to the thread.
DownstreamCalls ==
    {j \in 1..Len(calls) :
        \/ calls[j].op = "add_message"
        \/ /\ calls[j].op \in {"Runner.run", "Runner.run_streamed"}
           /\ calls[j].target \notin ClassifierAgents}

\* C20: one /chat request runs exactly one classifier agent,
\* explore_travel_agent when param is "explore" and validation_agent
\* otherwise, and has its verdict before an extraction agent, the general
\* agent, a message append or the enrichment trigger is started.
C20_ClassifierFirst ==
    /\ Cardinality(ClassifierRuns) <= 1
    /\ hpc \notin {"start", "classify"} => Cardinality(ClassifierRuns) = 1
    /\ \A i \in ClassifierRuns :
          calls[i].target = IF request.param = "explore"
                            THEN "explore_travel_agent" ELSE "validation_agent"
    /\ \A j \in DownstreamCalls :
          \E i \in ClassifierRuns : i < j /\ calls[i].outcome = "ok"
    /\ (DownstreamCalls # {} \/ thread # << >> \/ workers # << >>) => HasVerdict

C20_Witness ==
    /\ request.param = "explore"
    /\ Cardinality(ClassifierRuns) = 1
    /\ Ran("explore_planning_agent")
    /\ workers # << >>
    /\ thread # << >>

\* The threads check_user has created for a user.
ThreadsOf(user_id) ==
    {i \in 1..Len(zep_threads) : zep_threads[i].user_id = user_id}

\* C18: across any sequence of /chat requests by the same user, check_user
\* creates a thread for that user at most once.
C18_ThreadCreatedOnce ==
    \A u \in UserIds : Cardinality(ThreadsOf(u)) <= 1

\* The search results that count for the synthesis: success and some content.
Usable(research_results) ==
    {i \in 1..Len(research_results) :
        research_results[i].success /\ research_results[i].content # << >>}

\* get_validated_research has returned.
ResearchReturned == research.pc = "returned" /\ Len(research.research_results) = 3

\* C14: for every combination of success and failure of the three search
\* backends get_validated_research returns a result and does not raise; the
\* synthesis call is made if and only if at least two backends succeeded with
\* content, and the result is otherwise the placeholder of score "0/3" and
\* location "Unknown".
C14_SynthesisIffTwoSources ==
    /\ research.pc = "raised" => research.research_results = << >>
    /\ research.pc \in {"perplexity", "tavily", "synthesize"} => research.llm_calls = 0
    /\ ResearchReturned =>
          /\ Len(research.ret) = 1
          /\ research.llm_calls =
                IF Cardinality(Usable(research.research_results)) >= 2 THEN 1 ELSE 0
          /\ research.llm_calls = 0 =>
                /\ research.ret[1].score = <<"0", "/3">>
                /\ research.ret[1].location = Str(<<"Unknown">>)

C14_Witness ==
    /\ ResearchReturned
    /\ Cardinality(Usable(research.research_results)) = 1
    /\ \A i \in 1..3 : research.research_results[i].success
    /\ research.ret[1].score = <<"0", "/3">>

\* The location validate_research returned.
ReturnedLocation == research.ret[1].location

\* The synthesis gave no usable location: the field is missing, null, empty,
\* or one of "null", "None", "N/A".
NoUsableLocation(synthesis) ==
    \/ "location" \notin DOMAIN synthesis
    \/ synthesis.location \in {PyNone, Str(<< >>), Str(<<"null">>),
                               Str(<<"None">>), Str(<<"N/A">>)}

\* C15: the location of every result validate_research returns is not null and
\* not an empty or whitespace-only string, and it is "Unknown" whenever the
\* synthesis gave no usable location or the synthesis or the initialisation
\* failed.
C15_LocationNeverNull ==
    research.pc = "returned" =>
        /\ ReturnedLocation # PyNone
        /\ ReturnedLocation.t = "str" =>
              \E i \in 1..Len(ReturnedLocation.v) : ~IsSpace(ReturnedLocation.v[i])
        /\ research.research_results = << >> => ReturnedLocation = Str(<<"Unknown">>)
        /\ (research.llm = << >> \/ research.llm[1].kind # "ok") =>
              ReturnedLocation = Str(<<"Unknown">>)
        /\ (research.llm # << >> /\ research.llm[1].kind = "ok"
            /\ NoUsableLocation(research.llm[1].synthesis)) =>
              ReturnedLocation = Str(<<"Unknown">>)

C15_Witness ==
    /\ research.pc = "returned"
    /\ research.llm # << >>
    /\ research.llm[1].kind = "ok"
    /\ "location" \in DOMAIN research.llm[1].synthesis
    /\ research.llm[1].synthesis.location = Str(<<" ", "\t">>)
    /\ ReturnedLocation = Str(<<"Unknown">>)

\* The count of sub-queries does not match the type: a generic answer has
\* five, a specific answer one, an ignore answer none.
Mismatched(c) ==
    \/ c.type = "generic" /\ Len(c.queries) # 5
    \/ c.type = "specific" /\ Len(c.queries) # 1
    \/ c.type = "ignore" /\ Len(c.queries) # 0

\* C12: a classification whose count of sub-queries does not match its type
\* is rejected by classify_query, and process_in_background runs no RAG check,
\* no research, no conversion and no insert for it.
C12_MismatchRejected ==
    (completion # << >> /\ Mismatched(completion[1])) =>
        /\ bpc = "failed"
        /\ classification = << >>
        /\ tasks = << >>
        /\ formatted_results = << >>
        /\ research_insights = EmptyBag
        /\ instances \in {0, 1} /\ instances = validator

C12_Witness ==
    /\ completion # << >>
    /\ completion[1].type = "generic"
    /\ Len(completion[1].queries) = 4
    /\ bpc = "failed"

\* The pipelines of a generic classification have been gathered.
FannedOut == Len(tasks) > 1

\* C13: in the fan-out of a generic classification no failure inside a
\* pipeline is raised out of process_query_research: it becomes the result of
\* that sub-query, the group is not aborted, and process_in_background
\* collects the result of every sub-query, in the order of the sub-queries.
C13_FailureStaysLocal ==
    FannedOut =>
        /\ \A i \in 1..Len(tasks) : tasks[i].pc # "raised"
        /\ bpc \in {"gather", "done"}
        /\ bpc = "gather" => formatted_results = << >>
        /\ bpc = "done" =>
              /\ Len(formatted_results) = Len(tasks)
              /\ \A i \in 1..Len(tasks) :
                    /\ tasks[i].pc = "returned"
                    /\ formatted_results[i] = tasks[i].ret[1]
                    /\ formatted_results[i].query = tasks[i].query
        /\ (\A i \in 1..Len(tasks) : tasks[i].pc = "returned") =>
              bpc = "done" \/ ENABLED BgJoin

C13_Witness ==
    /\ FannedOut
    /\ bpc = "done"
    /\ Len(formatted_results) = 5
    /\ formatted_results[1].kind = "attraction" /\ formatted_results[1].db_id # << >>
    /\ formatted_results[2].kind = "research"
    /\ formatted_results[2].research = <<"Error: ", "Need at least 2 successful sources with content to synthesize.">>
    /\ formatted_results[3].db_error # << >>
    /\ formatted_results[4].kind = "research" /\ formatted_results[4].score = <<"2.5", "/3">>
    /\ formatted_results[5].kind = "attraction" /\ formatted_results[5].db_id # << >>

\* A step in which the insert of task i fails: the coroutine leaves its
\* await on insert_research_insight and the table has no new row.
InsertFails(i) ==
    /\ i <= Len(tasks')
    /\ tasks[i].pc = "insert"
    /\ tasks'[i].pc # "insert"
    /\ research_insights' = research_insights

\* C16: when the insert fails process_query_research does not raise: it
\* returns the converted record with db_id null and a db_error marker.
C16_InsertFailureMarked ==
    [][\A i \in 1..Len(tasks) :
          InsertFails(i) =>
              (/\ tasks'[i].pc = "returned"
               /\ tasks'[i].ret[1].kind = "attraction"
               /\ tasks'[i].ret[1].query = tasks[i].formatted_data[1].query
               /\ tasks'[i].ret[1].db_id = << >>
               /\ tasks'[i].ret[1].db_error # << >>)]_vars

C16_Witness ==
    /\ Len(tasks) = 1
    /\ tasks[1].pc = "returned"
    /\ tasks[1].ret[1].kind = "attraction"
    /\ tasks[1].ret[1].db_id = << >>
    /\ tasks[1].ret[1].db_error = <<"RuntimeError">>
    /\ research_insights = EmptyBag

\* C17: POST /validator/process returns {message: "Research has started"}
\* before the background research has run, and nothing the research comes to
\* changes the response.
C17_RespondsBeforeResearch ==
    /\ [][vresponses' # vresponses =>
            (/\ Len(vresponses') = 1
             /\ vresponses'[1].status = 200
             /\ vresponses'[1].body = <<"Research has started">>
             /\ bpc' \notin {"classify", "single", "gather", "done", "failed"}
             /\ tasks' = << >>)]_vars
    /\ [][vresponses # << >> => vresponses' = vresponses]_vars
    /\ [](bpc # "none" => vresponses # << >>)

C17_Witness ==
    /\ bpc = "done"
    /\ Len(formatted_results) = 5
    /\ vresponses = <<[kind |-> "json", status |-> 200,
                       body |-> <<"Research has started">>]>>

\* ------------------------------------------------------------------ C21
\* C21: once the client has disconnected while generate_stream (or the
\* rejection generator) was suspended, no frame of any kind is emitted: the
\* disconnect step itself adds nothing and no later step adds to the frames.
C21_NoFrameAfterDisconnect ==
    [][(disconnected \/ disconnected') => (frames' = frames)]_vars

\* The client has left a streaming response in the middle: frames were
\* emitted, the last one is no terminal frame and the generator is closed.
C21_Witness ==
    /\ disconnected
    /\ gen.name = "stream"
    /\ gpc = "closed"
    /\ deltas # << >>
    /\ frames # << >>
    /\ ~IsTerminal(frames[Len(frames)])

\* ------------------------------------------------------------------ C22
\* The texts of the content frames, in the order of emission.
Contents(fs) ==
    LET sel == SelectSeq(fs, LAMBDA f : f.kind = "content") IN
    [i \in 1..Len(sel) |-> sel[i].content]

\* The deltas that carry text.
NonEmpty(ds) == SelectSeq(ds, LAMBDA d : d # << >>)

IsPrefix(s, t) == Len(s) <= Len(t) /\ \A i \in 1..Len(s) : s[i] = t[i]

\* C22 as stated: when generate_stream has ended on its success path, its
\* content frames are the text deltas received from the model, one frame per
\* delta, unchanged and in order.
C22_ContentIsEveryDelta ==
    StreamSucceeded => Contents(frames) = received

\* C22, amended: the content frames are the non-empty text deltas received,
\* one frame per such delta, unchanged and in order (an empty delta gives no
\* frame). At every moment of the stream the content frames are a prefix of
\* the non-empty deltas received so far, short by the one delta whose
\* time_to_first_byte frame is being emitted and by nothing else.
C22_ContentIsEveryTextDelta ==
    gen.name = "stream" =>
        /\ IsPrefix(Contents(frames), NonEmpty(received))
        /\ Len(NonEmpty(received)) - Len(Contents(frames)) =
              (IF gpc = "ttfb" \/ (disconnected /\ first_chunk_time # None
                                               /\ full_response_content = << >>)
               THEN 1 ELSE 0)
        /\ StreamSucceeded => Contents(frames) = NonEmpty(received)

\* A successful stream in which an empty delta came between two text deltas.
C22_Witness ==
    /\ StreamSucceeded /\ gpc = "closed" /\ ~disconnected
    /\ received = << <<"a">>, << >>, <<"b">> >>
    /\ Contents(frames) = << <<"a">>, <<"b">> >>

\* ------------------------------------------------------------------ C23
\* The request was routed to the structured responder and has been served.
StructuredServed ==
    /\ hpc = "done"
    /\ HasVerdict
    /\ Route(request.param, Verdict) \in {TRIP, EXPLORE}

\* The runs of the two extraction agents, as positions of calls.
ExtractionRuns ==
    {i \in 1..Len(calls) :
        /\ calls[i].op = "Runner.run"
        /\ calls[i].target \in {"trip_planning_agent", "explore_planning_agent"}}

ReadsContext == \E i \in 1..Len(calls) : calls[i].op = "get_message"

\* C23: a request served by the structured responder has run the extraction
\* agent of its route exactly once, on the raw request message, and the thread
\* context (get_message) was never read.
C23_ExtractionOnceOnRawMessage ==
    StructuredServed =>
        /\ Cardinality(ExtractionRuns) = 1
        /\ \A i \in ExtractionRuns :
              /\ calls[i].input = request.message
              /\ calls[i].target =
                    (IF Route(request.param, Verdict) = TRIP
                     THEN "trip_planning_agent" ELSE "explore_planning_agent")
        /\ ~ReadsContext

\* What holds of every structured request, the failed launch included: at
\* most one extraction run, on the raw message, no read of the context.
C23_AtMostOnceOnRawMessage ==
    StructuredServed =>
        /\ Cardinality(ExtractionRuns) <= 1
        /\ \A i \in ExtractionRuns : calls[i].input = request.message
        /\ ~ReadsContext

\* ------------------------------------------------------------------ C28
Emitted(kind) == \E i \in 1..Len(frames) : frames[i].kind = kind

\* C28 as stated: the trigger is launched exactly once on the streaming path
\* and on the explore-extraction path, and never on the trip-extraction path
\* or on a rejected request.
C28_TriggerExactlyOnce ==
    /\ (gen.name = "stream" /\ gpc = "closed" /\ ~disconnected)
          => Len(workers) = 1
    /\ (hpc = "done" /\ HasVerdict /\ Route(request.param, Verdict) = EXPLORE)
          => Len(workers) = 1
    /\ (HasVerdict /\ Route(request.param, Verdict) \in {TRIP, REJECT})
          => workers = << >>

\* C28, amended: the trigger is launched at most once per request; it has
\* been launched exactly once when the stream emits its started frame (and
\* when the general agent is started) and when the explore extraction agent
\* is called; it is never launched on the trip-extraction path, on a rejected
\* request, or before the classifier has answered.
C28_TriggerAtMostOnce ==
    /\ Len(workers) <= 1
    /\ (gen.name = "stream" /\ (Emitted("started") \/ Ran("general_agent")))
          => Len(workers) = 1
    /\ Ran("explore_planning_agent") => Len(workers) = 1
    /\ (HasVerdict /\ Route(request.param, Verdict) \in {TRIP, REJECT})
          => workers = << >>
    /\ ~HasVerdict => workers = << >>

\* A stream that ran to its done frame, with its one trigger launched.
C28_Witness ==
    /\ StreamSucceeded
    /\ Emitted("started")
    /\ Len(workers) = 1
    /\ workers[1].query = final_message

\* ------------------------------------------------------------------ C29
\* The request was routed to the structured responder.
Structured ==
    HasVerdict /\ Route(request.param, Verdict) \in {TRIP, EXPLORE}

\* The add_message calls made so far, as positions of calls.
Appends == {i \in 1..Len(calls) : calls[i].op = "add_message"}

AppendFailed == \E i \in Appends : calls[i].outcome = "raise"

\* C29: on the structured path only the assistant's message is appended to
\* the thread, never the user's; a JSON response is returned only after that
\* append succeeded, with the object that was appended; a failing append is
\* answered with an "Agent error" and no JSON response.
C29_AssistantAppendedBeforeJson ==
    Structured =>
        /\ \A i \in Appends : calls[i].target = "assistant"
        /\ \A i \in 1..Len(thread) : thread[i].msg.role = "assistant"
        /\ Len(thread) <= 1
        /\ (responses # << >> /\ responses[1].kind = "json") =>
              /\ ~AppendFailed
              /\ Len(thread) = 1
              /\ thread[1].thread_id = thread_id
              /\ thread[1].msg.content = <<responses[1].body.response[1]>>
        /\ AppendFailed =>
              /\ thread = << >>
              /\ Len(responses) = 1
              /\ responses[1].kind = "http_error"
              /\ responses[1].body[1] = "Agent error"

\* The extraction succeeded and the append of its result failed.
C29_Witness ==
    /\ Structured
    /\ hpc = "done"
    /\ ExtractionRuns # {}
    /\ \A i \in ExtractionRuns : calls[i].outcome = "ok"
    /\ AppendFailed
    /\ responses[1].kind = "http_error"

\* ------------------------------------------------------------------ C25
\* The scale the synthesis prompt describes.
HalfPointScale == {"0", "0.5", "1", "1.5", "2", "2.5", "3"}

\* C25: the score of every result get_validated_research returns is one of
\* the half-point values 0 .. 3, rendered as "X/3", whatever the synthesis
\* put in similarity_score.
C25_ScoreOnHalfPointScale ==
    ResearchReturned =>
        research.ret[1].score \in {<<x, "/3">> : x \in HalfPointScale}

\* What holds of the score: it is the synthesis' similarity_score as it came,
\* "0" when the field is absent or no synthesis was made, followed by "/3".
C25_ScoreIsWhatSynthesisGave ==
    ResearchReturned =>
        research.ret[1].score =
            IF research.llm_calls = 1 /\ research.llm[1].kind = "ok"
                  /\ HasAttr(research.llm[1].synthesis, "similarity_score")
            THEN <<research.llm[1].synthesis.similarity_score, "/3">>
            ELSE <<"0", "/3">>

\* ------------------------------------------------------------------ C24
\* What rag() came to for task i: << >> when it raised, <<response>> else.
RagAnswer(i) == tasks[i].rag_answer[1]

\* At least one of the four arrays of the answer is non-empty.
SomeArrayNonEmpty(rag) ==
    /\ rag # << >>
    /\ \E f \in {"entities", "chunks", "audience", "travel_style"} :
          rag[1][f] # << >>

\* The conversion of task i has been called: its input is fixed.
ConversionCalled(i) == tasks[i].pc \in {"convert", "insert"}

\* C24: whatever the RAG pre-check came to (data, no data, an exception), the
\* next step of the sub-query is validate_research; the conversion is given
\* the RAG response as rag_context if and only if one of its entities,
\* chunks, audience, travel_style arrays is non-empty, and None otherwise.
C24_ResearchWhateverRagSays ==
    /\ [](\A i \in 1..Len(tasks) :
            ConversionCalled(i) =>
               tasks[i].conversion_input[1].rag_context =
                  (IF SomeArrayNonEmpty(RagAnswer(i)) THEN RagAnswer(i) ELSE << >>))
    /\ [][\A i \in 1..Len(tasks) :
            (tasks[i].pc = "rag" /\ tasks'[i].pc # "rag") =>
               (tasks'[i].pc = "research" /\ tasks'[i].rag_answer # << >>)]_vars
    /\ [][\A i \in 1..Len(tasks) :
            (tasks[i].pc = "research" /\ tasks'[i].pc # "research") =>
               (tasks'[i].pc \in {"construct", "search"})]_vars

\* The RAG answer held an audience only, research was made and the answer is
\* in the input of the conversion.
C24_Witness ==
    \E i \in 1..Len(tasks) :
        /\ tasks[i].pc = "convert"
        /\ RagAnswer(i) = <<RagResponse(<< >>, << >>, <<"family">>, << >>)>>
        /\ tasks[i].result # << >>
        /\ tasks[i].conversion_input[1].rag_context = RagAnswer(i)

\* ------------------------------------------------------------------ C26
\* The geocoding lookup of task i was made and came to nothing: an exception,
\* an HTTP error, a status other than OK, or no results.
GeocodingFailed(i) ==
    /\ tasks[i].maps_reply # << >>
    /\ LET reply == tasks[i].maps_reply[1] IN
       reply.kind \in {"raise", "http_error"}
          \/ reply.status # "OK" \/ reply.results = << >>

IsResult(ret) == ret # << >> /\ ret[1].kind \in {"research", "attraction"}

\* C26: a failed geocoding lookup does not stop the pipeline of its
\* sub-query: the conversion is called next, with maps_data None in its
\* input, the insert follows when the conversion gave a record, and
\* process_query_research returns a result.
C26_GeocodingFailureGoesOn ==
    /\ [](\A i \in 1..Len(tasks) :
            (ConversionCalled(i) /\ GeocodingFailed(i)) =>
               tasks[i].conversion_input[1].results[1].maps_data = None)
    /\ [][\A i \in 1..Len(tasks) :
            (tasks[i].pc = "maps" /\ tasks'[i].pc # "maps") =>
               (tasks'[i].pc = "convert")]_vars
    /\ [][\A i \in 1..Len(tasks) :
            (ConversionCalled(i) /\ GeocodingFailed(i)
                /\ tasks'[i].pc # tasks[i].pc) =>
               (\/ tasks[i].pc = "convert" /\ tasks'[i].pc = "insert"
                \/ tasks'[i].pc = "returned" /\ IsResult(tasks'[i].ret))]_vars

\* The lookup failed and the record converted from the research is being
\* inserted.
C26_Witness ==
    \E i \in 1..Len(tasks) :
        /\ tasks[i].pc = "insert"
        /\ GeocodingFailed(i)
        /\ tasks[i].maps_reply[1].kind = "http_error"
        /\ tasks[i].conversion_input[1].results[1].maps_data = None

\* ------------------------------------------------------------------ C30
\* The zero-confidence placeholder of get_validated_research.
IsPlaceholder(r) ==
    /\ r.score = <<"0", "/3">>
    /\ r.research # << >>
    /\ r.research[1] = "Error: "

\* The sub-queries whose record was inserted.
Inserted ==
    {i \in 1..Len(tasks) :
        /\ tasks[i].pc = "returned"
        /\ tasks[i].ret[1].kind = "attraction"
        /\ tasks[i].ret[1].db_id # << >>}

\* C30: no score is too low for the conversion: after the research and the
\* maps lookup the conversion is called with the research as it is, the
\* placeholder of score "0/3" included, and a converted record is inserted.
\* The table has one row for each sub-query that returned an inserted record
\* and no other; a step changes the table only by adding the one row of the
\* sub-query that leaves its insert.
C30_NoScoreGateOneInsert ==
    /\ [](BagCardinality(research_insights) = Cardinality(Inserted))
    /\ [][\A i \in 1..Len(tasks) :
            (tasks[i].pc = "maps" /\ tasks'[i].pc # "maps") =>
               (/\ tasks'[i].pc = "convert"
                /\ tasks'[i].conversion_input[1].results[1].score
                      = tasks[i].result[1].score
                /\ tasks'[i].conversion_input[1].results[1].research
                      = tasks[i].result[1].research)]_vars
    /\ [][research_insights' # research_insights =>
            (\E i \in 1..Len(tasks) :
                /\ tasks[i].pc = "insert"
                /\ tasks'[i].pc = "returned"
                /\ \A j \in 1..Len(tasks) : j # i => tasks'[j] = tasks[j]
                /\ research_insights' =
                      research_insights (+) SetToBag({tasks[i].query}))]_vars

\* The record converted from the placeholder is being inserted.
C30_Witness ==
    \E i \in 1..Len(tasks) :
        /\ tasks[i].pc = "insert"
        /\ IsPlaceholder(tasks[i].conversion_input[1].results[1])
        /\ tasks[i].formatted_data # << >>

\* ------------------------------------------------------------------ C27
\* The instances validate_research has run get_validated_research on.
UsedInstances == {tasks[i].used : i \in 1..Len(tasks)} \ {0}

\* C27: the worker threads of a generic classification, calling
\* validate_research side by side, construct the ResearchValidator at most
\* once, and every call runs on that one instance.
C27_ValidatorConstructedOnce ==
    /\ instances <= 1
    /\ Cardinality(UsedInstances) <= 1
====
